---------------------------- MODULE Spec2Model ----------------------------
(***************************************************************************)
(* Keyword clustering / verification core of the Amazon research pipeline. *)
(*                                                                         *)
(* Six operations are modelled, each with its own specification:           *)
(*   SpecRoots   - KeywordRootAnalyzer.group_by_roots                      *)
(*   SpecVerify  - DirectVerificationService.verify_irrelevant_keywords    *)
(*   SpecApply   - DirectVerificationService.apply_verification_results    *)
(*   SpecPipeline - ResearchPipeline.run_complete_pipeline, from the two   *)
(*                 parsed CSVs to the final keyword list                   *)
(*   SpecVariants - KeywordVariantDetector.detect_variants                 *)
(*   SpecQueries  - KeywordVariantDetector._singularize,                   *)
(*                  _normalize_keyword, is_variant and get_variant_type    *)
(*                                                                         *)
(* Python strings are sequences of one-character strings, so that lower(), *)
(* strip(), split() and the substring test `in` are computed, not assumed. *)
(***************************************************************************)
EXTENDS Integers, Sequences, FiniteSets, TLC

(***************************************************************************)
(* Bounds of the model.                                                    *)
(***************************************************************************)
MaxKeywords == 3
MaxRecords == 2
MaxConcurrent == 2
MaxRows == 2
MaxVariants == 2
MaxTokenLen == 5

(***************************************************************************)
(* Python string primitives.                                               *)
(***************************************************************************)
UpperAlpha == <<"A","B","C","D","E","F","G","H","I","J","K","L","M",
                "N","O","P","Q","R","S","T","U","V","W","X","Y","Z">>
LowerAlpha == <<"a","b","c","d","e","f","g","h","i","j","k","l","m",
                "n","o","p","q","r","s","t","u","v","w","x","y","z">>

LowerChar(c) ==
    IF \E i \in DOMAIN UpperAlpha : UpperAlpha[i] = c
    THEN LowerAlpha[CHOOSE i \in DOMAIN UpperAlpha : UpperAlpha[i] = c]
    ELSE c

\* str.lower()
lower(s) == [i \in 1..Len(s) |-> LowerChar(s[i])]

\* the characters str.strip() and str.split() treat as whitespace
IsSpace(c) == c \in {" ", "\t"}

RECURSIVE lstrip(_)
lstrip(s) == IF s # <<>> /\ IsSpace(Head(s)) THEN lstrip(Tail(s)) ELSE s

RECURSIVE rstrip(_)
rstrip(s) ==
    IF s # <<>> /\ IsSpace(s[Len(s)]) THEN rstrip(SubSeq(s, 1, Len(s) - 1)) ELSE s

\* str.strip()
strip(s) == rstrip(lstrip(s))

\* str.split(): the maximal runs of non-whitespace characters, in order
RECURSIVE SplitFrom(_, _, _)
SplitFrom(s, cur, acc) ==
    IF s = <<>>
    THEN IF cur = <<>> THEN acc ELSE Append(acc, cur)
    ELSE IF IsSpace(Head(s))
         THEN SplitFrom(Tail(s), <<>>, IF cur = <<>> THEN acc ELSE Append(acc, cur))
         ELSE SplitFrom(Tail(s), Append(cur, Head(s)), acc)

split(s) == SplitFrom(s, <<>>, <<>>)

\* the substring test `sub in s`
Contains(sub, s) ==
    \E i \in 0..(Len(s) - Len(sub)) : SubSeq(s, i + 1, i + Len(sub)) = sub

\* membership in a list, `x in xs`
InList(x, xs) == \E i \in DOMAIN xs : xs[i] = x

\* the elements of xs that satisfy Keep, in order
RECURSIVE SelectIdx(_, _)
SelectIdx(n, keep) ==
    IF n = 0 THEN <<>>
    ELSE IF n \in keep THEN Append(SelectIdx(n - 1, keep), n)
         ELSE SelectIdx(n - 1, keep)

\* sum of f over the set S of its domain
RECURSIVE SumOver(_, _)
SumOver(f, S) ==
    IF S = {} THEN 0
    ELSE LET x == CHOOSE y \in S : TRUE IN f[x] + SumOver(f, S \ {x})

(***************************************************************************)
(* Words and phrases the inputs are drawn from.                            *)
(***************************************************************************)
W_red == <<"r","e","d">>
W_car == <<"c","a","r">>
W_toy == <<"t","o","y">>
W_a   == <<"a">>
SP    == <<" ">>

(***************************************************************************)
(* State.                                                                  *)
(***************************************************************************)
VARIABLES
    \* group_by_roots
    keyword_evaluations,   \* the argument: a list of keyword evaluation dicts
    verification_results,  \* dict keyword -> result: built by verify, read by apply
    rpc,                   \* position in group_by_roots
    relevant_keywords,     \* indices of the records that passed the category filter
    sorted_bigrams,        \* list of <<bigram, freq>>
    sorted_unigrams,       \* list of <<unigram, freq>>
    rootIdx,               \* index of the next sorted root of the current phase
    claimed_keywords,      \* set of claimed keyword texts
    root_groups,           \* the list being returned
    \* verify_irrelevant_keywords
    vpc,                   \* position in verify_irrelevant_keywords
    max_concurrent_scrape, \* argument
    max_concurrent_verify, \* argument
    irrelevant_keywords,   \* indices of the records with category 'irrelevant'
    futures,               \* one scrape future per irrelevant record
    scraped_titles,        \* dict keyword -> titles
    completed_count,       \* counter of the as_completed loop
    verify_tasks,          \* one verify_keyword coroutine per irrelevant record
    completed,             \* nonlocal counter of verify_keyword
    progress_updates,      \* the percents progress_callback was called with
    scrapers,              \* per scrape task: its AmazonKeywordScraper
    \* apply_verification_results
    apc,                   \* position in apply_verification_results
    applyIdx,              \* index of the record the loop is at
    relevant_count,        \* the counter that is returned
    \* ResearchPipeline.run_complete_pipeline
    rspc,                  \* position in run_complete_pipeline
    design_rows,           \* rows of the design CSV
    revenue_rows,          \* rows of the revenue CSV
    design_relevancy,      \* design rows still in play
    revenue_relevancy,     \* revenue rows still in play
    top_10_roots,          \* the ten most frequent tokens
    branded_keywords,      \* brand detection: the branded phrases
    non_branded_keywords,  \* brand detection: the other phrases
    branded_rows,          \* rows kept for display only
    filtered_rows,         \* rows sent to categorization
    merged_evaluations,    \* the list the pipeline returns
    \* KeywordVariantDetector.detect_variants
    vdpc,                  \* position in detect_variants
    variant_keywords,      \* the argument `keywords`
    variantIdx,            \* index of the next keyword / group of the current loop
    variant_groups,        \* dict group key -> members, in insertion order
    variant_analysis,      \* the list being returned
    \* the queries of KeywordVariantDetector
    query,                 \* the method called and its arguments
    query_result           \* what it returned

rootVars == <<rpc, relevant_keywords, sorted_bigrams,
              sorted_unigrams, rootIdx, claimed_keywords, root_groups>>

verifyVars == <<vpc, max_concurrent_scrape, max_concurrent_verify,
                irrelevant_keywords, futures, scraped_titles, completed_count,
                verify_tasks, completed, progress_updates, scrapers>>

applyVars == <<apc, applyIdx, relevant_count>>

pipelineVars == <<rspc, design_rows, revenue_rows, design_relevancy,
                  revenue_relevancy, top_10_roots, branded_keywords,
                  non_branded_keywords, branded_rows, filtered_rows,
                  merged_evaluations>>

variantVars == <<vdpc, variant_keywords, variantIdx, variant_groups,
                 variant_analysis>>

queryVars == <<query, query_result>>

vars == <<keyword_evaluations, verification_results, rootVars, verifyVars,
          applyVars, pipelineVars, variantVars, queryVars>>

\* what each operation leaves alone
notRootVars     == <<verification_results, verifyVars, applyVars, pipelineVars,
                     variantVars, queryVars>>
notVerifyVars   == <<rootVars, applyVars, pipelineVars, variantVars, queryVars>>
notApplyVars    == <<rootVars, verifyVars, pipelineVars, variantVars, queryVars>>
notPipelineVars == <<verification_results, rootVars, verifyVars, applyVars,
                     variantVars, queryVars>>
notVariantVars  == <<keyword_evaluations, verification_results, rootVars,
                     verifyVars, applyVars, pipelineVars, queryVars>>
notQueryVars    == <<keyword_evaluations, verification_results, rootVars,
                     verifyVars, applyVars, pipelineVars, variantVars>>

\* no call of the operation is in progress
RootsIdle ==
    /\ rpc = "idle"
    /\ relevant_keywords = <<>>
    /\ sorted_bigrams = <<>>
    /\ sorted_unigrams = <<>>
    /\ rootIdx = 0
    /\ claimed_keywords = {}
    /\ root_groups = <<>>

VerifyIdle ==
    /\ vpc = "idle"
    /\ max_concurrent_scrape = 0
    /\ max_concurrent_verify = 0
    /\ irrelevant_keywords = <<>>
    /\ futures = <<>>
    /\ scraped_titles = <<>>
    /\ completed_count = 0
    /\ verify_tasks = <<>>
    /\ completed = 0
    /\ progress_updates = <<>>
    /\ scrapers = <<>>

ApplyIdle ==
    /\ apc = "idle"
    /\ applyIdx = 0
    /\ relevant_count = 0

PipelineIdle ==
    /\ rspc = "idle"
    /\ design_rows = <<>>
    /\ revenue_rows = <<>>
    /\ design_relevancy = <<>>
    /\ revenue_relevancy = <<>>
    /\ top_10_roots = <<>>
    /\ branded_keywords = {}
    /\ non_branded_keywords = {}
    /\ branded_rows = <<>>
    /\ filtered_rows = <<>>
    /\ merged_evaluations = <<>>

VariantsIdle ==
    /\ vdpc = "idle"
    /\ variant_keywords = <<>>
    /\ variantIdx = 0
    /\ variant_groups = <<>>
    /\ variant_analysis = <<>>

\* the result slot before the method has returned
NoResult == [done |-> FALSE, text |-> <<>>, flag |-> FALSE, type |-> ""]

QueriesIdle ==
    /\ query = [op |-> "none", a |-> <<>>, b |-> <<>>]
    /\ query_result = NoResult

(***************************************************************************)
(* KeywordRootAnalyzer                                                     *)
(***************************************************************************)
\* self.stop_words
stop_words == {
    <<"a">>, <<"a","n">>, <<"t","h","e">>, <<"a","n","d">>, <<"o","r">>,
    <<"b","u","t">>, <<"i","n">>, <<"o","n">>, <<"a","t">>, <<"t","o">>,
    <<"f","o","r">>, <<"o","f">>, <<"w","i","t","h">>, <<"b","y">>,
    <<"f","r","o","m">>, <<"a","s">>, <<"i","s">>, <<"w","a","s">>,
    <<"a","r","e">>, <<"w","e","r","e">>, <<"b","e">>, <<"b","e","e","n">>,
    <<"b","e","i","n","g">>, <<"h","a","v","e">>, <<"h","a","s">>,
    <<"h","a","d">>, <<"d","o">>, <<"d","o","e","s">>, <<"d","i","d">>,
    <<"w","i","l","l">>, <<"w","o","u","l","d">>,
    <<"s","h","o","u","l","d">>, <<"c","o","u","l","d">>, <<"m","a","y">>,
    <<"m","i","g","h","t">>, <<"m","u","s","t">>, <<"c","a","n">> }

\* the categories group_by_roots keeps
relevant_categories == {"relevant", "design_specific", "outlier"}

\* kw.get('keyword', '').strip().lower() of the record at index i
KwText(i) == lower(strip(keyword_evaluations[i].keyword))

\* Counter[key] += 1 on a Counter kept as the list of its <<key, count>>
\* items in insertion order
CounterAdd(counter, key) ==
    IF \E i \in DOMAIN counter : counter[i][1] = key
    THEN [i \in DOMAIN counter |->
            IF counter[i][1] = key THEN <<key, counter[i][2] + 1>> ELSE counter[i]]
    ELSE Append(counter, <<key, 1>>)

\* the bigrams one phrase contributes: consecutive word pairs, skipping a
\* pair of two stop words, each bigram once (seen_bigrams)
RECURSIVE PhraseBigrams(_, _, _)
PhraseBigrams(words, i, seen) ==
    IF i + 1 > Len(words) THEN seen
    ELSE LET bigram == words[i] \o SP \o words[i + 1] IN
         IF words[i] \in stop_words /\ words[i + 1] \in stop_words
         THEN PhraseBigrams(words, i + 1, seen)
         ELSE IF InList(bigram, seen)
              THEN PhraseBigrams(words, i + 1, seen)
              ELSE PhraseBigrams(words, i + 1, Append(seen, bigram))

\* the unigrams one phrase contributes: non-stop words, each once
RECURSIVE PhraseUnigrams(_, _, _)
PhraseUnigrams(words, i, seen) ==
    IF i > Len(words) THEN seen
    ELSE IF words[i] \in stop_words \/ InList(words[i], seen)
         THEN PhraseUnigrams(words, i + 1, seen)
         ELSE PhraseUnigrams(words, i + 1, Append(seen, words[i]))

RECURSIVE CounterAddAll(_, _, _)
CounterAddAll(counter, keys, i) ==
    IF i > Len(keys) THEN counter
    ELSE CounterAddAll(CounterAdd(counter, keys[i]), keys, i + 1)

\* _count_root_frequencies: kind "bigram" gives bigram_counts, kind
\* "unigram" gives unigram_counts, over the records kws[k..]
RECURSIVE CountRootFrequencies(_, _, _, _)
CountRootFrequencies(kws, kind, k, counter) ==
    IF k > Len(kws) THEN counter
    ELSE LET phrase == KwText(kws[k])
             words  == split(phrase)
             roots  == IF kind = "bigram"
                       THEN PhraseBigrams(words, 1, <<>>)
                       ELSE PhraseUnigrams(words, 1, <<>>)
         IN IF phrase = <<>>
            THEN CountRootFrequencies(kws, kind, k + 1, counter)
            ELSE CountRootFrequencies(kws, kind, k + 1,
                                      CounterAddAll(counter, roots, 1))

InsertByFreq_TiesReversed(sorted, item) ==
    LET ahead == {i \in DOMAIN sorted : sorted[i][2] > item[2]}
        n     == Cardinality(ahead)
    IN SubSeq(sorted, 1, n) \o <<item>> \o SubSeq(sorted, n + 1, Len(sorted))

\* one item put into a list sorted by count descending, behind every item
\* whose count is not smaller (sorted() is stable, also with reverse=True)
InsertByFreq(sorted, item) ==
    LET ahead == {i \in DOMAIN sorted : sorted[i][2] >= item[2]}
        n     == Cardinality(ahead)
    IN SubSeq(sorted, 1, n) \o <<item>> \o SubSeq(sorted, n + 1, Len(sorted))

\* sorted(counts.items(), key=lambda x: x[1], reverse=True)
RECURSIVE SortByFreq(_, _, _)
SortByFreq(items, i, acc) ==
    IF i > Len(items) THEN acc
    ELSE SortByFreq(items, i + 1, InsertByFreq(acc, items[i]))

\* the test that lets a root claim a keyword text: substring for a bigram,
\* word membership for a unigram
RootMatches(root, root_type, kw_text) ==
    IF root_type = "bigram"
    THEN Contains(root, kw_text)
    ELSE InList(root, split(kw_text))

AlreadyClaimed_Never(kw_text, claimed) == FALSE

\* lines 313, 335 and 354: `kw_text in claimed_keywords`
AlreadyClaimed(kw_text, claimed) == kw_text \in claimed

\* the inner loop of Phase 1 and Phase 2 over relevant_keywords[k..]
RECURSIVE ClaimScan(_, _, _, _, _)
ClaimScan(root, root_type, k, claimed, group) ==
    IF k > Len(relevant_keywords)
    THEN [claimed |-> claimed, group |-> group]
    ELSE LET kw_text == KwText(relevant_keywords[k]) IN
         IF AlreadyClaimed(kw_text, claimed)
         THEN ClaimScan(root, root_type, k + 1, claimed, group)
         ELSE IF RootMatches(root, root_type, kw_text)
              THEN ClaimScan(root, root_type, k + 1, claimed \cup {kw_text},
                             Append(group, relevant_keywords[k]))
              ELSE ClaimScan(root, root_type, k + 1, claimed, group)

\* root_groups after the group of one root is (or is not) appended
WithGroup(groups, root, root_type, group_keywords) ==
    IF group_keywords # <<>>
    THEN Append(groups, [root |-> root, root_type |-> root_type,
                         frequency |-> Len(group_keywords),
                         keywords |-> group_keywords])
    ELSE groups

\* Phase 3: the records whose text was never claimed
UnclaimedOf(kws, claimed) ==
    LET keep == {k \in DOMAIN kws : ~AlreadyClaimed(KwText(kws[k]), claimed)}
        idx  == SelectIdx(Len(kws), keep)
    IN [j \in DOMAIN idx |-> kws[idx[j]]]

(***************************************************************************)
(* group_by_roots, one step per processed root.                            *)
(***************************************************************************)
\* keyword texts group_by_roots is run on
RootPhrases ==
    { W_red \o SP \o W_car,                       \* "red car"
      W_red \o SP \o W_car \o SP \o W_toy,        \* "red car toy"
      W_red \o SP \o SP \o W_car,                 \* "red  car"
      <<"R">> \o Tail(W_red) \o SP \o W_car \o SP,\* "Red car "
      W_a \o SP \o W_toy,                         \* "a toy"
      <<"b">> \o W_red \o SP \o W_car \o <<"t">> } \* "bred cart"

RootCategories == {"relevant", "irrelevant"}

RootInputs ==
    UNION { [1..n -> [keyword : RootPhrases, category : RootCategories]] :
            n \in 0..MaxKeywords }

InitRoots ==
    /\ keyword_evaluations \in RootInputs
    /\ rpc = "start"
    /\ relevant_keywords = <<>>
    /\ sorted_bigrams = <<>>
    /\ sorted_unigrams = <<>>
    /\ rootIdx = 0
    /\ claimed_keywords = {}
    /\ root_groups = <<>>
    /\ verification_results = <<>>
    /\ VerifyIdle
    /\ ApplyIdle
    /\ PipelineIdle
    /\ VariantsIdle
    /\ QueriesIdle

\* the category filter
RelevantKeywordsOf(evals) ==
    SelectIdx(Len(evals), {i \in DOMAIN evals : evals[i].category \in relevant_categories})

\* lines 283-303: filter, early return, count, sort
GroupStart ==
    /\ rpc = "start"
    /\ LET rel == RelevantKeywordsOf(keyword_evaluations) IN
       /\ relevant_keywords' = rel
       /\ IF rel = <<>>
          THEN /\ rpc' = "done"
               /\ UNCHANGED <<sorted_bigrams, sorted_unigrams>>
          ELSE /\ rpc' = "bigrams"
               /\ sorted_bigrams' =
                    SortByFreq(CountRootFrequencies(rel, "bigram", 1, <<>>), 1, <<>>)
               /\ sorted_unigrams' =
                    SortByFreq(CountRootFrequencies(rel, "unigram", 1, <<>>), 1, <<>>)
    /\ rootIdx' = 1
    /\ UNCHANGED <<notRootVars, keyword_evaluations, claimed_keywords, root_groups>>

\* one iteration of a phase loop over sorted_roots
RootStep(phase, root_type, sorted_roots) ==
    /\ rpc = phase
    /\ rootIdx <= Len(sorted_roots)
    /\ LET root == sorted_roots[rootIdx][1]
           freq == sorted_roots[rootIdx][2]
           scan == ClaimScan(root, root_type, 1, claimed_keywords, <<>>)
       IN IF freq < 2
          THEN UNCHANGED <<claimed_keywords, root_groups>>
          ELSE /\ claimed_keywords' = scan.claimed
               /\ root_groups' = WithGroup(root_groups, root, root_type, scan.group)
    /\ rootIdx' = rootIdx + 1
    /\ UNCHANGED <<notRootVars, keyword_evaluations, rpc, relevant_keywords,
                   sorted_bigrams, sorted_unigrams>>

\* Phase 1, lines 305-325
BigramStep == RootStep("bigrams", "bigram", sorted_bigrams)

\* the end of the Phase 1 loop
BigramsDone ==
    /\ rpc = "bigrams"
    /\ rootIdx > Len(sorted_bigrams)
    /\ rpc' = "unigrams"
    /\ rootIdx' = 1
    /\ UNCHANGED <<notRootVars, keyword_evaluations, relevant_keywords, sorted_bigrams,
                   sorted_unigrams, claimed_keywords, root_groups>>

\* Phase 2, lines 327-348
UnigramStep == RootStep("unigrams", "unigram", sorted_unigrams)

\* Phase 3 and the return, lines 350-373
UnclaimedStep ==
    /\ rpc = "unigrams"
    /\ rootIdx > Len(sorted_unigrams)
    /\ LET unclaimed == UnclaimedOf(relevant_keywords, claimed_keywords) IN
       root_groups' = WithGroup(root_groups, <<"_","o","t","h","e","r">>,
                                "unclaimed", unclaimed)
    /\ rpc' = "done"
    /\ UNCHANGED <<notRootVars, keyword_evaluations, relevant_keywords, sorted_bigrams,
                   sorted_unigrams, rootIdx, claimed_keywords>>

NextRoots ==
    \/ GroupStart
    \/ BigramStep
    \/ BigramsDone
    \/ UnigramStep
    \/ UnclaimedStep

SpecRoots == InitRoots /\ [][NextRoots]_vars

\* number of times record i occurs as a member of a returned group
Memberships(i) ==
    LET perGroup == [g \in DOMAIN root_groups |->
                       Cardinality({j \in DOMAIN root_groups[g].keywords :
                                      root_groups[g].keywords[j] = i})]
    IN SumOver(perGroup, DOMAIN root_groups)

\* C1: after group_by_roots returns, every record that passed the category
\* filter is a member of exactly one returned group ('_other' included),
\* also when two records carry the same phrase.
C1_RootPartition ==
    rpc = "done" =>
        \A k \in DOMAIN relevant_keywords : Memberships(relevant_keywords[k]) = 1

\* the record at index i is a member of a group of one of the given types
MemberOfGroupOfType(i, types) ==
    \E g \in DOMAIN root_groups :
        /\ root_groups[g].root_type \in types
        /\ InList(i, root_groups[g].keywords)

\* C13: at every point of group_by_roots and in its result a record is a
\* member of at most one group: a record that a root has claimed is not
\* added to a later bigram, unigram or unclaimed group.
C13_AtMostOneGroup ==
    \A i \in DOMAIN keyword_evaluations : Memberships(i) <= 1

C13_Witness ==
    /\ rpc = "done"
    /\ \E i \in DOMAIN keyword_evaluations, g \in DOMAIN root_groups :
         /\ MemberOfGroupOfType(i, {"bigram"})
         /\ root_groups[g].root_type = "unigram"
         /\ InList(root_groups[g].root, split(KwText(i)))

\* the token list of record i has a consecutive pair that forms a bigram of
\* global frequency >= 2
HasFrequentBigram(i) ==
    LET words == split(KwText(i)) IN
    \E j \in 1..(Len(words) - 1) :
        \E b \in DOMAIN sorted_bigrams :
            /\ sorted_bigrams[b][1] = words[j] \o SP \o words[j + 1]
            /\ sorted_bigrams[b][2] >= 2

\* C14: a keyword whose token list has a consecutive pair forming a bigram
\* of global frequency >= 2 is claimed when Phase 1 is over, before any
\* unigram root is processed, and is never a member of a unigram group or
\* of the unclaimed group.
C14_BigramPrecedence ==
    \A k \in DOMAIN relevant_keywords :
        LET i == relevant_keywords[k] IN
        HasFrequentBigram(i) =>
            /\ rpc \in {"unigrams", "done"} =>
                 ~MemberOfGroupOfType(i, {"unigram", "unclaimed"})
            /\ (rpc = "unigrams" /\ rootIdx = 1) => KwText(i) \in claimed_keywords

\* the words of the records that passed the filter, record by record
RECURSIVE WordsOfRecords(_)
WordsOfRecords(k) ==
    IF k > Len(relevant_keywords) THEN <<>>
    ELSE <<split(KwText(relevant_keywords[k]))>> \o WordsOfRecords(k + 1)

\* the words form the root at word position j
RootOccursAt(root_type, root, words, j) ==
    IF root_type = "bigram"
    THEN /\ j + 1 <= Len(words)
         /\ ~(words[j] \in stop_words /\ words[j + 1] \in stop_words)
         /\ root = words[j] \o SP \o words[j + 1]
    ELSE /\ j <= Len(words)
         /\ words[j] \notin stop_words
         /\ root = words[j]

\* the places of the input sequence, record by record and word by word (a
\* phrase of the inputs has at most three words), and the first place at
\* which a root is seen
Places == (1..MaxKeywords) \X (1..3)

PlaceBefore(a, b) == a[1] < b[1] \/ (a[1] = b[1] /\ a[2] < b[2])

FirstSeen(root_type, root, ws) ==
    LET seen == {a \in Places : /\ a[1] \in DOMAIN ws
                                /\ RootOccursAt(root_type, root, ws[a[1]], a[2])}
    IN CHOOSE a \in seen : \A b \in seen : a = b \/ PlaceBefore(a, b)

RECURSIVE FirstSeenOfEach(_, _, _, _)
FirstSeenOfEach(root_type, sorted_roots, ws, p) ==
    IF p > Len(sorted_roots) THEN <<>>
    ELSE <<FirstSeen(root_type, sorted_roots[p][1], ws)>>
           \o FirstSeenOfEach(root_type, sorted_roots, ws, p + 1)

\* a sorted root list is in the order of frequency descending, equal
\* frequencies in first-seen order
InProcessingOrder(root_type, sorted_roots) ==
    LET first == FirstSeenOfEach(root_type, sorted_roots, WordsOfRecords(1), 1)
    IN \A p, q \in DOMAIN sorted_roots :
          p < q => \/ sorted_roots[p][2] > sorted_roots[q][2]
                   \/ /\ sorted_roots[p][2] = sorted_roots[q][2]
                      /\ PlaceBefore(first[p], first[q])

\* the position of the root of group g in its sorted list
RootPosition(g) ==
    LET sorted_roots == IF root_groups[g].root_type = "bigram"
                        THEN sorted_bigrams ELSE sorted_unigrams
    IN CHOOSE p \in DOMAIN sorted_roots : sorted_roots[p][1] = root_groups[g].root

TypeRank(root_type) ==
    CASE root_type = "bigram" -> 1 [] root_type = "unigram" -> 2 [] OTHER -> 3

\* C22: the bigram roots and then the unigram roots are processed in the
\* order of frequency descending, roots of equal frequency in the order in
\* which they are first seen in the input; the groups are emitted in that
\* order.
C22_RootOrder ==
    /\ InProcessingOrder("bigram", sorted_bigrams)
    /\ InProcessingOrder("unigram", sorted_unigrams)
    /\ \A g, h \in DOMAIN root_groups :
          g < h =>
            \/ TypeRank(root_groups[g].root_type) < TypeRank(root_groups[h].root_type)
            \/ /\ root_groups[g].root_type = root_groups[h].root_type
               /\ root_groups[g].root_type # "unclaimed"
               /\ RootPosition(g) < RootPosition(h)

C22_Witness ==
    /\ rpc = "done"
    /\ \E g, h \in DOMAIN root_groups :
         /\ g < h
         /\ root_groups[g].root_type = "unigram"
         /\ root_groups[h].root_type = "unigram"
         /\ sorted_unigrams[RootPosition(g)][2] = sorted_unigrams[RootPosition(h)][2]

\* the frequency the sorted lists give the root
GlobalFrequency(root_type, root) ==
    LET sorted_roots == IF root_type = "bigram" THEN sorted_bigrams
                        ELSE sorted_unigrams
    IN sorted_roots[CHOOSE p \in DOMAIN sorted_roots : sorted_roots[p][1] = root][2]

\* every bigram and unigram of the k-th record that passed the filter has
\* global frequency 1
OnlyRareRoots(k) ==
    \A root_type \in {"bigram", "unigram"} : \A j \in 1..3 :
        LET words == split(KwText(relevant_keywords[k]))
            root == IF root_type = "bigram" /\ j + 1 <= Len(words)
                    THEN words[j] \o SP \o words[j + 1]
                    ELSE IF j <= Len(words) THEN words[j] ELSE <<>>
        IN RootOccursAt(root_type, root, words, j)
             => GlobalFrequency(root_type, root) = 1

\* C23: no bigram or unigram group has a root of global frequency below 2,
\* no group is empty, and in the result a keyword all of whose roots have
\* frequency 1 is a member of the unclaimed group.
C23_NoRareRootGroups ==
    /\ \A g \in DOMAIN root_groups :
          /\ root_groups[g].keywords # <<>>
          /\ root_groups[g].root_type \in {"bigram", "unigram"} =>
               GlobalFrequency(root_groups[g].root_type, root_groups[g].root) >= 2
    /\ rpc = "done" =>
          \A k \in DOMAIN relevant_keywords :
              OnlyRareRoots(k) =>
                 MemberOfGroupOfType(relevant_keywords[k], {"unclaimed"})

(***************************************************************************)
(* DirectVerificationService.verify_irrelevant_keywords                    *)
(*                                                                         *)
(* _scrape_all_keywords runs the scrapes on a thread pool and collects     *)
(* them in an as_completed loop; only when the pool has shut down does     *)
(* _verify_with_ai start its coroutines, which share one semaphore.        *)
(***************************************************************************)
\* titles[:8], line 117
MaxTitles == 8

\* dict[key] = value
DictPut(d, key, value) ==
    [x \in (DOMAIN d) \cup {key} |-> IF x = key THEN value ELSE d[x]]

\* dict.get(key, default)
DictGet(d, key, default) == IF key \in DOMAIN d THEN d[key] ELSE default

\* xs[:n]
FirstN(xs, n) == SubSeq(xs, 1, IF Len(xs) < n THEN Len(xs) ELSE n)

\* what the scraper collaborator may do on one call
NoScrape == [kind |-> "none", titles |-> <<>>]
ScraperOutcomes ==
    { [kind |-> "error", titles |-> <<>>],
      [kind |-> "ok",    titles |-> <<>>],
      [kind |-> "ok",    titles |-> <<1, 2, 3, 4, 5, 6, 7, 8, 9>>] }

\* what the classifier collaborator (Runner.run and the extraction of its
\* structured output) may do on one call
\* for kind "error" the field reasoning holds str(e)
NoClassify == [kind |-> "none", final_verdict |-> "", match_percentage |-> 0,
               reasoning |-> <<>>]
ClassifierOutcomes ==
    { [kind |-> "error", final_verdict |-> "", match_percentage |-> 0,
       reasoning |-> <<"t","i","m","e","o","u","t">>],
      [kind |-> "ok", final_verdict |-> "relevant", match_percentage |-> 75,
       reasoning |-> <<"m","a","t","c","h">>],
      [kind |-> "ok", final_verdict |-> "irrelevant", match_percentage |-> 10,
       reasoning |-> <<"d","i","f","f","e","r">>] }

\* scrape_keyword, lines 108-120: the titles of the returned tuple
ScrapeKeyword(outcome) ==
    IF outcome.kind = "error" THEN <<>> ELSE FirstN(outcome.titles, MaxTitles)

\* lines 185-193: the result written when there are no titles
NoTitlesResult ==
    [verdict |-> "irrelevant", match_percentage |-> 0,
     reasoning |->
        <<"N","o"," ","c","o","m","p","e","t","i","t","o","r"," ","t","i",
          "t","l","e","s"," ","f","o","u","n","d">>]

\* line 185, `if not titles`
NoTitles_Never(titles) == FALSE

NoTitles(titles) == titles = <<>>

NoTitlesWrite_Dropped(results, keyword) == results

\* lines 187-192: the write of that result
NoTitlesWrite(results, keyword) == DictPut(results, keyword, NoTitlesResult)

\* the prefix of the reasoning written by the except branch, line 237
VerificationErrorPrefix ==
    <<"V","e","r","i","f","i","c","a","t","i","o","n"," ","e","r","r","o",
      "r",":"," ">>

AfterClassifier_NoExcept(outcome) ==
    IF outcome.kind = "error"
    THEN [raised |-> TRUE, result |-> NoTitlesResult]
    ELSE [raised |-> FALSE,
          result |-> [verdict |-> outcome.final_verdict,
                      match_percentage |-> outcome.match_percentage,
                      reasoning |-> outcome.reasoning]]

\* lines 195-238: what verify_keyword does with the classifier's outcome;
\* raised says whether an exception leaves verify_keyword
AfterClassifier(outcome) ==
    IF outcome.kind = "error"
    THEN [raised |-> FALSE,
          result |-> [verdict |-> "irrelevant", match_percentage |-> 0,
                      reasoning |-> VerificationErrorPrefix \o outcome.reasoning]]
    ELSE [raised |-> FALSE,
          result |-> [verdict |-> outcome.final_verdict,
                      match_percentage |-> outcome.match_percentage,
                      reasoning |-> outcome.reasoning]]

\* keywords the verification is run on
VerifyKeywords == {W_red, W_car}
VerifyCategories == {"irrelevant", "relevant"}

VerifyInputs ==
    UNION { [1..n -> [keyword : VerifyKeywords, category : VerifyCategories]] :
            n \in 0..MaxRecords }

InitVerify ==
    /\ keyword_evaluations \in VerifyInputs
    /\ vpc = "start"
    /\ max_concurrent_scrape \in 1..MaxConcurrent
    /\ max_concurrent_verify \in 1..MaxConcurrent
    /\ irrelevant_keywords = <<>>
    /\ futures = <<>>
    /\ scraped_titles = <<>>
    /\ completed_count = 0
    /\ verify_tasks = <<>>
    /\ verification_results = <<>>
    /\ completed = 0
    /\ progress_updates = <<>>
    /\ scrapers = <<>>
    /\ RootsIdle
    /\ ApplyIdle
    /\ PipelineIdle
    /\ VariantsIdle
    /\ QueriesIdle

\* the keyword of task t
TaskKeyword(t) == keyword_evaluations[irrelevant_keywords[t]].keyword

Tasks == DOMAIN irrelevant_keywords

\* lines 54-61 and 102-129: filter, early return, submit every scrape
VerifyCall ==
    /\ vpc = "start"
    /\ LET irr == SelectIdx(Len(keyword_evaluations),
                            {i \in DOMAIN keyword_evaluations :
                               keyword_evaluations[i].category = "irrelevant"})
       IN /\ irrelevant_keywords' = irr
          /\ IF irr = <<>>
             THEN /\ vpc' = "returned"
                  /\ futures' = <<>>
                  /\ scrapers' = <<>>
             ELSE /\ vpc' = "scraping"
                  /\ futures' = [t \in DOMAIN irr |->
                                   [state |-> "queued", outcome |-> NoScrape,
                                    titles |-> <<>>]]
                  /\ scrapers' = [t \in DOMAIN irr |-> "none"]
    /\ UNCHANGED <<notVerifyVars, keyword_evaluations, max_concurrent_scrape,
                   max_concurrent_verify, scraped_titles, completed_count,
                   verify_tasks, verification_results, completed,
                   progress_updates>>

\* the scraper calls in progress: the scrape_keyword calls a pool thread runs
ScrapesInProgress ==
    Cardinality({u \in DOMAIN futures : futures[u].state = "running"})

\* line 125, ThreadPoolExecutor(max_workers=...): a thread is idle
WorkerFree(running, max_workers) == running < max_workers

\* a pool thread takes the oldest queued scrape and scrape_keyword makes
\* its scraper, whose constructor opens the session (line 111)
ScrapeBegin(t) ==
    /\ vpc = "scraping"
    /\ futures[t].state = "queued"
    /\ \A u \in Tasks : u < t => futures[u].state # "queued"
    /\ WorkerFree(ScrapesInProgress, max_concurrent_scrape)
    /\ futures' = [futures EXCEPT ![t].state = "running"]
    /\ scrapers' = [scrapers EXCEPT ![t] = "open"]
    /\ UNCHANGED <<notVerifyVars, keyword_evaluations, vpc, max_concurrent_scrape,
                   max_concurrent_verify, irrelevant_keywords, scraped_titles,
                   completed_count, verify_tasks, verification_results, completed,
                   progress_updates>>

\* lines 110-120: scraper.close() is the last call inside the try, after
\* warm_up, scrape_search_html and extract_product_titles; when one of
\* them raises, the except clause returns without it
ScraperAfter(outcome) ==
    IF outcome.kind = "error" THEN "open" ELSE "closed"

\* scrape_keyword returns on its thread
ScrapeFinish(t, outcome) ==
    /\ vpc = "scraping"
    /\ futures[t].state = "running"
    /\ futures' = [futures EXCEPT ![t] = [state |-> "finished", outcome |-> outcome,
                                          titles |-> ScrapeKeyword(outcome)]]
    /\ scrapers' = [scrapers EXCEPT ![t] = ScraperAfter(outcome)]
    /\ UNCHANGED <<notVerifyVars, keyword_evaluations, vpc, max_concurrent_scrape,
                   max_concurrent_verify, irrelevant_keywords, scraped_titles,
                   completed_count, verify_tasks, verification_results, completed,
                   progress_updates>>

\* line 141: 95 + int((completed_count / total_keywords) * 3), an int
ScrapeProgress(count, total_keywords) ==
    [num |-> 95 + ((count * 3) \div total_keywords), den |-> 1]

\* line 242: 95 + (completed / len(keywords)) * 4, a float, held as the
\* fraction num / den
VerifyProgress(count, total) ==
    [num |-> 95 * total + count * 4, den |-> total]

\* one iteration of the as_completed loop, lines 131-145; progress_callback
\* is supplied and is called before the next future is taken
ScrapeCollect(t) ==
    /\ vpc = "scraping"
    /\ futures[t].state = "finished"
    /\ futures' = [futures EXCEPT ![t].state = "collected"]
    /\ scraped_titles' = DictPut(scraped_titles, TaskKeyword(t), futures[t].titles)
    /\ completed_count' = completed_count + 1
    /\ progress_updates' =
         Append(progress_updates,
                ScrapeProgress(completed_count + 1, Len(irrelevant_keywords)))
    /\ UNCHANGED <<notVerifyVars, keyword_evaluations, vpc, max_concurrent_scrape,
                   max_concurrent_verify, irrelevant_keywords, verify_tasks,
                   verification_results, completed, scrapers>>

ScrapingOver_Any == \E t \in Tasks : futures[t].state = "collected"

\* lines 131-148: as_completed has yielded every future and the pool has
\* shut down
ScrapingOver == \A t \in Tasks : futures[t].state = "collected"

\* the loop and the pool end; lines 175-178 and 246: the coroutines are made
ScrapeAllDone ==
    /\ vpc = "scraping"
    /\ ScrapingOver
    /\ vpc' = "verifying"
    /\ verify_tasks' = [t \in Tasks |-> [state |-> "pending", outcome |-> NoClassify]]
    /\ UNCHANGED <<notVerifyVars, keyword_evaluations, max_concurrent_scrape,
                   max_concurrent_verify, irrelevant_keywords, futures,
                   scraped_titles, completed_count, verification_results, completed,
                   progress_updates, scrapers>>

\* the classifier calls in progress: the coroutines inside Runner.run, each
\* of which holds the semaphore
ClassifierCallsInProgress ==
    Cardinality({u \in DOMAIN verify_tasks : verify_tasks[u].state = "classifying"})

SemaphoreFree_OffByOne(holders, max_concurrent) == holders <= max_concurrent

\* lines 176 and 181, asyncio.Semaphore(max_concurrent): `async with` gets in
SemaphoreFree(holders, max_concurrent) == holders < max_concurrent

\* verify_keyword gets the semaphore (in creation order) and runs to its
\* first suspension: the return of lines 185-193 or the classifier call
VerifyKeywordBegin(t) ==
    /\ vpc = "verifying"
    /\ verify_tasks[t].state = "pending"
    /\ \A u \in Tasks : u < t => verify_tasks[u].state # "pending"
    /\ SemaphoreFree(ClassifierCallsInProgress, max_concurrent_verify)
    /\ LET titles == DictGet(scraped_titles, TaskKeyword(t), <<>>) IN
       IF NoTitles(titles)
       THEN /\ verification_results' =
                 NoTitlesWrite(verification_results, TaskKeyword(t))
            /\ completed' = completed + 1
            /\ verify_tasks' = [verify_tasks EXCEPT ![t].state = "done"]
       ELSE /\ verify_tasks' = [verify_tasks EXCEPT ![t].state = "classifying"]
            /\ UNCHANGED <<verification_results, completed>>
    /\ UNCHANGED <<notVerifyVars, keyword_evaluations, vpc, max_concurrent_scrape,
                   max_concurrent_verify, irrelevant_keywords, futures,
                   scraped_titles, completed_count, progress_updates, scrapers>>

StateAfterClassifier_Retry(outcome) ==
    IF outcome.kind = "error" THEN "pending" ELSE "done"

\* lines 221-243: the coroutine ends after the result is written, whether
\* the classifier returned or raised
StateAfterClassifier(outcome) == "done"

\* the classifier call of task t ends; lines 221-243
ClassifierReturn(t, outcome) ==
    /\ vpc = "verifying"
    /\ verify_tasks[t].state = "classifying"
    /\ LET after == AfterClassifier(outcome) IN
       IF after.raised
       THEN /\ vpc' = "raised"
            /\ verify_tasks' = [verify_tasks EXCEPT ![t] =
                                  [state |-> "raised", outcome |-> outcome]]
            /\ UNCHANGED <<verification_results, completed, progress_updates>>
       ELSE /\ vpc' = vpc
            /\ verification_results' =
                 DictPut(verification_results, TaskKeyword(t), after.result)
            /\ completed' = completed + 1
            /\ progress_updates' =
                 Append(progress_updates,
                        VerifyProgress(completed + 1, Len(irrelevant_keywords)))
            /\ verify_tasks' = [verify_tasks EXCEPT ![t] =
                                  [state |-> StateAfterClassifier(outcome),
                                   outcome |-> outcome]]
    /\ UNCHANGED <<notVerifyVars, keyword_evaluations, max_concurrent_scrape,
                   max_concurrent_verify, irrelevant_keywords, futures,
                   scraped_titles, completed_count, scrapers>>

AllVerified_First == \E t \in Tasks : verify_tasks[t].state = "done"

\* every coroutine has ended
AllVerified == \A t \in Tasks : verify_tasks[t].state = "done"

\* asyncio.gather returns, lines 247-250 and 82
VerifyReturn ==
    /\ vpc = "verifying"
    /\ AllVerified
    /\ vpc' = "returned"
    /\ UNCHANGED <<notVerifyVars, keyword_evaluations, max_concurrent_scrape,
                   max_concurrent_verify, irrelevant_keywords, futures,
                   scraped_titles, completed_count, verify_tasks,
                   verification_results, completed, progress_updates, scrapers>>

NextVerify ==
    \/ VerifyCall
    \/ \E t \in Tasks : ScrapeBegin(t)
    \/ \E t \in Tasks, outcome \in ScraperOutcomes : ScrapeFinish(t, outcome)
    \/ \E t \in Tasks : ScrapeCollect(t)
    \/ ScrapeAllDone
    \/ \E t \in Tasks : VerifyKeywordBegin(t)
    \/ \E t \in Tasks, outcome \in ClassifierOutcomes : ClassifierReturn(t, outcome)
    \/ VerifyReturn

SpecVerify == InitVerify /\ [][NextVerify]_vars

\* the scraper and classifier calls return, the pool threads and the event
\* loop keep running
FairSpecVerify == SpecVerify /\ WF_vars(NextVerify)

(***************************************************************************)
(* Properties of verify_irrelevant_keywords.                               *)
(***************************************************************************)
SubmittedKeywords == {TaskKeyword(t) : t \in Tasks}

TasksOf(k) == {t \in Tasks : TaskKeyword(t) = k}

\* the scrape of task t gave zero titles or raised
ScrapeFailed(t) ==
    \/ futures[t].outcome.kind = "error"
    \/ futures[t].outcome.kind = "ok" /\ futures[t].outcome.titles = <<>>

NoTitlesMessage ==
    <<"n","o"," ","c","o","m","p","e","t","i","t","o","r"," ","t","i","t",
      "l","e","s"," ","f","o","u","n","d">>

OwnResult(t) ==
    LET o == verify_tasks[t].outcome IN
    CASE o.kind = "none"  -> [verdict |-> "irrelevant", match_percentage |-> 0,
                              reasoning |-> NoTitlesResult.reasoning]
      [] o.kind = "ok"    -> [verdict |-> o.final_verdict,
                              match_percentage |-> o.match_percentage,
                              reasoning |-> o.reasoning]
      [] o.kind = "error" -> [verdict |-> "irrelevant", match_percentage |-> 0,
                              reasoning |-> VerificationErrorPrefix \o o.reasoning]

Terminal(t) ==
    /\ futures[t].state = "collected"
    /\ t \in DOMAIN verify_tasks
    /\ verify_tasks[t].state = "done"

\* C10: verify returns only when every submitted task is terminal (no early
\* return, no task left running or cancelled), and, the scraper and the
\* classifier calls all returning, verify does return.
C10_FullJoin ==
    /\ [](vpc = "returned" => \A t \in Tasks : Terminal(t))
    /\ <>(vpc = "returned")

C10_Witness ==
    /\ vpc = "returned"
    /\ Cardinality(Tasks) = 2
    /\ \A t \in Tasks : Terminal(t)
    /\ \E t \in Tasks : ScrapeFailed(t)
    /\ \E t \in Tasks : verify_tasks[t].outcome.kind = "ok"

\* a scraper call and a classifier call of two tasks are in progress at once
ScrapeOverlapsClassify ==
    \E t \in DOMAIN futures, u \in DOMAIN verify_tasks :
        /\ t # u
        /\ futures[t].state = "running"
        /\ verify_tasks[u].state = "classifying"

C12_PoolBounds ==
    vpc # "idle" =>
        /\ ScrapesInProgress <= max_concurrent_scrape
        /\ ClassifierCallsInProgress <= max_concurrent_verify

C12_Witness ==
    /\ max_concurrent_verify = 1
    /\ ClassifierCallsInProgress = 1
    /\ \E t \in Tasks :
         /\ verify_tasks[t].state = "pending"
         /\ DictGet(scraped_titles, TaskKeyword(t), <<>>) # <<>>

\* how far task t has come: Pending 0, Scraping 1, Scraped 2 (the scrape
\* has returned) and 3 (its titles are collected), Verifying 4, Done or
\* Failed 5
TaskRank(t) ==
    IF t \in DOMAIN verify_tasks /\ verify_tasks[t].state # "pending"
    THEN IF verify_tasks[t].state = "classifying" THEN 4 ELSE 5
    ELSE CASE futures[t].state = "queued"    -> 0
           [] futures[t].state = "running"   -> 1
           [] futures[t].state = "finished"  -> 2
           [] futures[t].state = "collected" -> 3

\* task t ended without a verdict of the classifier: it had no titles, or
\* the classifier call raised
TaskFailed(t) ==
    /\ TaskRank(t) = 5
    /\ verify_tasks[t].outcome.kind \in {"none", "error"}

C20_ProgressOnEveryCompletion ==
    [][ \A t \in DOMAIN verify_tasks :
          (TaskRank(t) < 5 /\ TaskRank(t)' = 5) =>
             LET total == Len(irrelevant_keywords) IN
             /\ completed' = completed + 1
             /\ Len(progress_updates') = Len(progress_updates) + 1
             /\ LET p == progress_updates'[Len(progress_updates')] IN
                p.num = p.den * ((95 * total + 4 * completed') \div total)
      ]_vars

(***************************************************************************)
(* DirectVerificationService.apply_verification_results                    *)
(***************************************************************************)
\* the reasoning prefixes of lines 276 and 283
VerifiedRelevantPrefix ==
    <<"V","e","r","i","f","i","e","d"," ","a","s"," ","r","e","l","e","v",
      "a","n","t",":"," ">>
VerifiedIrrelevantPrefix ==
    <<"V","e","r","i","f","i","e","d"," ","a","s"," ","i","r","r","e","l",
      "e","v","a","n","t",":"," ">>

\* lines 270-283: the loop body on one record
ApplyToRecord(cat, results) ==
    IF cat.keyword \in DOMAIN results
    THEN LET result == results[cat.keyword] IN
         IF result.verdict = "relevant"
         THEN [cat EXCEPT !.category = "relevant",
                          !.relevance_score = 8,
                          !.reasoning = VerifiedRelevantPrefix \o result.reasoning]
         ELSE [cat EXCEPT !.category = "irrelevant",
                          !.relevance_score = 3,
                          !.reasoning = VerifiedIrrelevantPrefix \o result.reasoning]
    ELSE cat

CountsAsRelevant_AnyVerdict(cat, results) == cat.keyword \in DOMAIN results

\* line 277: whether the loop body counts the record
CountsAsRelevant(cat, results) ==
    /\ cat.keyword \in DOMAIN results
    /\ results[cat.keyword].verdict = "relevant"

\* pipeline.py lines 489-511: the score a category carries
ScoreOf(category) ==
    CASE category = "irrelevant"      -> 3
      [] category = "outlier"         -> 5
      [] category = "relevant"        -> 8
      [] category = "design_specific" -> 10
      [] category = "branded"         -> 2
      [] OTHER                        -> 7

\* keywords, categories and verification results the operation is run on
ApplyKeywords ==
    { W_red,                                  \* "red"
      <<"R">> \o Tail(W_red) \o SP,           \* "Red "
      W_car }                                 \* "car"

ApplyCategories == {"irrelevant", "design_specific", "relevant"}

InitialReasoning == <<"a","i">>

ApplyRecords ==
    { [keyword |-> k, category |-> c, relevance_score |-> ScoreOf(c),
       reasoning |-> InitialReasoning] :
      k \in ApplyKeywords, c \in ApplyCategories }

ResultValues ==
    {NoTitlesResult} \cup {AfterClassifier(o).result : o \in ClassifierOutcomes}

\* the list is the one verify was called with, the dict is what verify
\* returned for it: one entry per keyword of an irrelevant record
InitApply ==
    /\ keyword_evaluations \in UNION { [1..n -> ApplyRecords] : n \in 0..MaxRecords }
    /\ verification_results \in
         [ {keyword_evaluations[i].keyword :
              i \in {j \in DOMAIN keyword_evaluations :
                       keyword_evaluations[j].category = "irrelevant"}}
           -> ResultValues ]
    /\ apc = "loop"
    /\ applyIdx = 1
    /\ relevant_count = 0
    /\ RootsIdle
    /\ VerifyIdle
    /\ PipelineIdle
    /\ VariantsIdle
    /\ QueriesIdle

\* one iteration of the loop of lines 269-283
ApplyStep ==
    /\ apc = "loop"
    /\ applyIdx <= Len(keyword_evaluations)
    /\ keyword_evaluations' =
         [keyword_evaluations EXCEPT ![applyIdx] =
            ApplyToRecord(keyword_evaluations[applyIdx], verification_results)]
    /\ relevant_count' =
         IF CountsAsRelevant(keyword_evaluations[applyIdx], verification_results)
         THEN relevant_count + 1 ELSE relevant_count
    /\ applyIdx' = applyIdx + 1
    /\ UNCHANGED <<notApplyVars, verification_results, apc>>

\* lines 285-286
ApplyReturn ==
    /\ apc = "loop"
    /\ applyIdx > Len(keyword_evaluations)
    /\ apc' = "returned"
    /\ UNCHANGED <<notApplyVars, keyword_evaluations, verification_results,
                   applyIdx, relevant_count>>

NextApply ==
    \/ ApplyStep
    \/ ApplyReturn

SpecApply == InitApply /\ [][NextApply]_vars

\* C3: apply_verification_results never changes the category, score or
\* reasoning of a record whose category is design_specific, also when its
\* keyword is a key of verification_results.
C3_DesignSpecificSticky ==
    [][ \A i \in DOMAIN keyword_evaluations :
          keyword_evaluations[i].category = "design_specific"
          => /\ keyword_evaluations'[i].category = keyword_evaluations[i].category
             /\ keyword_evaluations'[i].relevance_score =
                  keyword_evaluations[i].relevance_score
             /\ keyword_evaluations'[i].reasoning = keyword_evaluations[i].reasoning
      ]_vars

(***************************************************************************)
(* ResearchPipeline.run_complete_pipeline: from the two parsed CSVs to the *)
(* final keyword list.  A row is the record of its 'Keyword Phrase' and    *)
(* 'Search Volume' cells (fields KeywordPhrase, SearchVolume); the rows    *)
(* followed are those add_relevancy keeps, in runs whose listing scrape    *)
(* succeeds.                                                               *)
(***************************************************************************)
\* csv_processor.STOP_WORDS
STOP_WORDS == {
    <<"t","h","e">>, <<"a">>, <<"a","n">>, <<"a","n","d">>, <<"o","r">>,
    <<"b","u","t">>, <<"i","n">>, <<"o","n">>, <<"a","t">>, <<"t","o">>,
    <<"f","o","r">>, <<"o","f">>, <<"w","i","t","h">>, <<"b","y">>,
    <<"f","r","o","m">>, <<"u","p">>, <<"a","b","o","u","t">>,
    <<"i","n","t","o">>, <<"t","h","r","o","u","g","h">>,
    <<"d","u","r","i","n","g">>, <<"b","e","f","o","r","e">>,
    <<"a","f","t","e","r">>, <<"a","b","o","v","e">>,
    <<"b","e","l","o","w">>, <<"b","e","t","w","e","e","n">>,
    <<"a","m","o","n","g">>, <<"a","g","a","i","n","s","t">>,
    <<"w","i","t","h","o","u","t">>, <<"w","i","t","h","i","n">>,
    <<"i","s">>, <<"a","r","e">>, <<"w","a","s">>, <<"w","e","r","e">>,
    <<"b","e">>, <<"b","e","e","n">>, <<"b","e","i","n","g">>,
    <<"h","a","v","e">>, <<"h","a","s">>, <<"h","a","d">>, <<"d","o">>,
    <<"d","o","e","s">>, <<"d","i","d">>, <<"w","i","l","l">>,
    <<"w","o","u","l","d">>, <<"c","o","u","l","d">>,
    <<"s","h","o","u","l","d">>, <<"m","a","y">>, <<"m","i","g","h","t">>,
    <<"c","a","n">>, <<"m","u","s","t">>, <<"s","h","a","l","l">> }

\* CSVProcessor.deduplicate_design
deduplicate_design(design, revenue) ==
    LET revenue_keywords ==
            { lower(strip(revenue[i].KeywordPhrase)) :
                i \in {j \in DOMAIN revenue : strip(revenue[j].KeywordPhrase) # <<>>} }
        Keeps(row) ==
            LET kw == strip(row.KeywordPhrase)
            IN kw # <<>> /\ lower(kw) \notin revenue_keywords
    IN SelectSeq(design, Keeps)

\* the tokens of all rows, in order, without stop words
RECURSIVE RowTokens(_, _)
RowTokens(rows, i) ==
    IF i > Len(rows) THEN <<>>
    ELSE LET keyword_phrase == strip(rows[i].KeywordPhrase)
             tokens == IF keyword_phrase = <<>> THEN <<>>
                       ELSE split(lower(keyword_phrase))
             NotStop(token) == token \notin STOP_WORDS /\ token # <<>>
         IN SelectSeq(tokens, NotStop) \o RowTokens(rows, i + 1)

\* CSVProcessor.extract_root_keywords, then root_keywords[:10] of the pipeline
TopRoots(design, revenue) ==
    LET token_counts  == CounterAddAll(<<>>, RowTokens(design \o revenue, 1), 1)
        sorted_tokens == SortByFreq(token_counts, 1, <<>>)
        first         == FirstN(sorted_tokens, 10)
    IN [i \in DOMAIN first |-> first[i][1]]

\* the set of a list's elements
Range(xs) == {xs[i] : i \in DOMAIN xs}

\* lines 170-183: the rows whose lowered phrase is in the lowered keyword set
RowsIn(rows, keywords) ==
    LET lowered == {lower(kw) : kw \in keywords}
        Member(row) == lower(row.KeywordPhrase) \in lowered
    IN SelectSeq(rows, Member)

\* lines 242-248: the rows that contain one of the top roots
RowsWithRoot(rows, roots) ==
    LET HasRoot(row) ==
            LET kw == strip(row.KeywordPhrase)
            IN /\ kw # <<>>
               /\ \E r \in DOMAIN roots : Contains(lower(roots[r]), lower(kw))
    IN SelectSeq(rows, HasRoot)

\* lines 151-163 and 555: brand_status_lookup, keyed by the lowered phrase.
\* The branded items are listed first, so a key that both lists produce
\* ends with the non-branded item.
brand_status_lookup(branded, non_branded) ==
    [k \in {lower(kw) : kw \in branded \cup non_branded} |->
        IF k \in {lower(kw) : kw \in non_branded}
        THEN [status |-> "Non-Branded", reasoning |-> "Generic term"]
        ELSE [status |-> "Branded", reasoning |-> "Contains brand name"]]

\* list.sort(key=..., reverse=True), keys[i] being the key of xs[i]: by key
\* descending, equal keys keep their order
StableSortDesc(xs, keys) ==
    LET Ahead(i) == {j \in DOMAIN xs :
                        \/ keys[j] > keys[i]
                        \/ keys[j] = keys[i] /\ j < i}
    IN [p \in DOMAIN xs |->
          xs[CHOOSE i \in DOMAIN xs : Cardinality(Ahead(i)) + 1 = p]]

\* int(text) on a str: surrounding whitespace, an optional sign, decimal
\* digits; anything else raises ValueError
Digits == <<"0","1","2","3","4","5","6","7","8","9">>

IsDigit(c) == \E d \in DOMAIN Digits : Digits[d] = c

DigitValue(c) == (CHOOSE d \in DOMAIN Digits : Digits[d] = c) - 1

IntBody(text) ==
    LET t == strip(text)
    IN IF t # <<>> /\ t[1] \in {"+", "-"} THEN Tail(t) ELSE t

IntRaises(text) ==
    \/ IntBody(text) = <<>>
    \/ \E i \in DOMAIN IntBody(text) : ~IsDigit(IntBody(text)[i])

RECURSIVE DigitsValue(_)
DigitsValue(ds) ==
    IF ds = <<>> THEN 0
    ELSE DigitsValue(SubSeq(ds, 1, Len(ds) - 1)) * 10 + DigitValue(ds[Len(ds)])

IntOf(text) ==
    LET t == strip(text)
    IN IF t[1] = "-" THEN 0 - DigitsValue(IntBody(text)) ELSE DigitsValue(IntBody(text))

\* line 615: the sort key, and whether computing it raises
VolumeKeyRaises(x) == x.SearchVolume # <<>> /\ IntRaises(x.SearchVolume)

VolumeKey(x) == IF x.SearchVolume # <<>> THEN IntOf(x.SearchVolume) ELSE 0

\* lines 612-619: the sort is skipped as a whole when one key raises
SortBySearchVolume(entries) ==
    IF \E i \in DOMAIN entries : VolumeKeyRaises(entries[i])
    THEN entries
    ELSE StableSortDesc(entries, [i \in DOMAIN entries |-> VolumeKey(entries[i])])

\* lines 434-439 and 476-485: the validation overwrites the categories of
\* the keywords it found irrelevant
ValidationReasoning == <<"n","o">>

OverwriteIrrelevant(evaluations, irrelevant_lookup) ==
    [i \in DOMAIN evaluations |->
        IF lower(evaluations[i].keyword) \in irrelevant_lookup
        THEN [evaluations[i] EXCEPT !.category = "irrelevant",
                                    !.reasoning = ValidationReasoning]
        ELSE evaluations[i]]

\* lines 490-511
MapScores(evaluations) ==
    [i \in DOMAIN evaluations |->
        [keyword |-> evaluations[i].keyword,
         category |-> evaluations[i].category,
         reasoning |-> evaluations[i].reasoning,
         relevance_score |-> ScoreOf(evaluations[i].category)]]

RelevanceScore(x) == x.relevance_score

\* lines 558-575: the evaluations that have a row, each merged with the
\* first row of the same stripped, lowered phrase
RowMatches(row, eval) ==
    lower(strip(row.KeywordPhrase)) = lower(strip(eval.keyword))

MergeWithRows(evaluations, rows, lookup) ==
    LET HasRow(eval) == \E r \in DOMAIN rows : RowMatches(rows[r], eval)
        matched == SelectSeq(evaluations, HasRow)
        Merged(eval) ==
            LET r == CHOOSE q \in DOMAIN rows :
                        /\ RowMatches(rows[q], eval)
                        /\ \A p \in 1..(q - 1) : ~RowMatches(rows[p], eval)
                keyword_lower == lower(strip(eval.keyword))
                brand_info == DictGet(lookup, keyword_lower,
                                [status |-> "Non-Branded", reasoning |-> "N/A"])
            IN [keyword |-> eval.keyword,
                category |-> eval.category,
                relevance_score |-> eval.relevance_score,
                reasoning |-> eval.reasoning,
                brand_status |-> brand_info.status,
                brand_reasoning |-> brand_info.reasoning,
                SearchVolume |-> rows[r].SearchVolume]
    IN [i \in DOMAIN matched |-> Merged(matched[i])]

\* lines 578-600: one entry per branded row; it has no 'reasoning' key,
\* which the output reads as ''
BrandedEntries(rows, lookup) ==
    [i \in DOMAIN rows |->
        LET keyword == strip(rows[i].KeywordPhrase)
            brand_info == DictGet(lookup, lower(keyword),
                            [status |-> "Branded", reasoning |-> "Contains brand name"])
        IN [keyword |-> keyword,
            category |-> "branded",
            relevance_score |-> 2,
            reasoning |-> <<>>,
            brand_status |-> "Branded",
            brand_reasoning |-> brand_info.reasoning,
            SearchVolume |-> rows[i].SearchVolume]]

\* lines 605-610
KeptForOutput(row) ==
    \/ row.relevance_score >= 5
    \/ row.brand_status = "Branded"
    \/ row.category = "irrelevant"

\* lines 625-660: the output row of one merged entry
OutputRow(row) ==
    [keyword |-> row.keyword,
     category |-> IF row.brand_status = "Branded" THEN "branded" ELSE row.category,
     relevance_score |-> row.relevance_score,
     relevance_rationale |-> row.reasoning,
     search_volume |-> row.SearchVolume,
     brand_reasoning |-> row.brand_reasoning]

\* phrases and 'Search Volume' cells of the CSV rows the pipeline is run on
RowPhrases ==
    { W_car,                        \* "car"
      <<"C">> \o Tail(W_car),       \* "Car"
      W_toy }                       \* "toy"

RowVolumes ==
    { <<>>,                         \* an empty cell
      <<"9">>,
      <<"1",",","2">> }             \* "1,2", a number with a thousands separator

Rows == {[KeywordPhrase |-> p, SearchVolume |-> v] : p \in RowPhrases, v \in RowVolumes}

RowLists(n) == UNION {[1..m -> Rows] : m \in 0..n}

\* the categories the categorization agent answers with
AgentCategories == {"irrelevant", "outlier", "relevant", "design_specific"}

InitPipeline ==
    /\ design_rows \in RowLists(MaxRows)
    /\ revenue_rows \in RowLists(MaxRows - Len(design_rows))
    /\ rspc = "dedup"
    /\ design_relevancy = <<>>
    /\ revenue_relevancy = <<>>
    /\ top_10_roots = <<>>
    /\ branded_keywords = {}
    /\ non_branded_keywords = {}
    /\ branded_rows = <<>>
    /\ filtered_rows = <<>>
    /\ merged_evaluations = <<>>
    /\ keyword_evaluations = <<>>
    /\ verification_results = <<>>
    /\ RootsIdle
    /\ VerifyIdle
    /\ ApplyIdle
    /\ VariantsIdle
    /\ QueriesIdle

\* lines 78-130: deduplicate the design rows, stop when no row is left,
\* extract the top roots
DeduplicateDesign ==
    /\ rspc = "dedup"
    /\ LET design_dedup == deduplicate_design(design_rows, revenue_rows) IN
         /\ design_relevancy' = design_dedup
         /\ revenue_relevancy' = revenue_rows
         /\ IF design_dedup = <<>> /\ revenue_rows = <<>>
            THEN /\ rspc' = "failed"
                 /\ top_10_roots' = top_10_roots
            ELSE /\ rspc' = "brands"
                 /\ top_10_roots' = TopRoots(design_dedup, revenue_rows)
    /\ UNCHANGED <<notPipelineVars, keyword_evaluations, design_rows, revenue_rows,
                   branded_keywords, non_branded_keywords, branded_rows,
                   filtered_rows, merged_evaluations>>

\* lines 139-183 and 242-275: the brand detection agent splits the distinct
\* phrases into branded and non-branded; the rows are split the same way and
\* the non-branded rows with a top root go on to categorization
DetectBrands(branded) ==
    /\ rspc = "brands"
    /\ LET all_keywords == Range(design_relevancy) \cup Range(revenue_relevancy)
           phrases      == {row.KeywordPhrase : row \in all_keywords}
           non_branded  == phrases \ branded
           rows         == RowsWithRoot(RowsIn(design_relevancy, non_branded)
                                        \o RowsIn(revenue_relevancy, non_branded),
                                        top_10_roots)
       IN /\ branded \subseteq phrases
          /\ branded_keywords' = branded
          /\ non_branded_keywords' = non_branded
          /\ design_relevancy' = RowsIn(design_relevancy, non_branded)
          /\ revenue_relevancy' = RowsIn(revenue_relevancy, non_branded)
          /\ branded_rows' = RowsIn(design_relevancy, branded)
                             \o RowsIn(revenue_relevancy, branded)
          /\ filtered_rows' = rows
          /\ rspc' = IF rows = <<>> THEN "returned" ELSE "categorize"
    /\ UNCHANGED <<notPipelineVars, keyword_evaluations, design_rows, revenue_rows,
                   top_10_roots, merged_evaluations>>

\* lines 278 and 333-368: one batch of at most five keywords; the agent
\* answers one categorization per keyword, or the batch fails and gives none
CategorizationBatchSize == 5

Categorize(categories) ==
    /\ rspc = "categorize"
    /\ Len(filtered_rows) <= CategorizationBatchSize
    /\ DOMAIN categories = DOMAIN filtered_rows
    /\ keyword_evaluations' =
         [i \in DOMAIN filtered_rows |->
            [keyword |-> filtered_rows[i].KeywordPhrase,
             category |-> categories[i],
             reasoning |-> InitialReasoning]]
    /\ rspc' = "validate"
    /\ UNCHANGED <<notPipelineVars, design_rows, revenue_rows, design_relevancy,
                   revenue_relevancy, top_10_roots, branded_keywords,
                   non_branded_keywords, branded_rows, filtered_rows,
                   merged_evaluations>>

\* lines 359-362: the batch fails
CategorizeBatchFails ==
    /\ rspc = "categorize"
    /\ Len(filtered_rows) <= CategorizationBatchSize
    /\ keyword_evaluations' = <<>>
    /\ rspc' = "validate"
    /\ UNCHANGED <<notPipelineVars, design_rows, revenue_rows, design_relevancy,
                   revenue_relevancy, top_10_roots, branded_keywords,
                   non_branded_keywords, branded_rows, filtered_rows,
                   merged_evaluations>>

\* lines 379-543: the validation agent names the keywords it finds
\* irrelevant, their categories are overwritten, every category is mapped
\* to its score, and the pipeline returns when there is no categorization
ValidateIrrelevant(irrelevant_lookup) ==
    /\ rspc = "validate"
    /\ irrelevant_lookup \subseteq
         {lower(keyword_evaluations[i].keyword) : i \in DOMAIN keyword_evaluations}
    /\ keyword_evaluations' =
         MapScores(OverwriteIrrelevant(keyword_evaluations, irrelevant_lookup))
    /\ rspc' = IF keyword_evaluations = <<>> THEN "returned" ELSE "merge"
    /\ UNCHANGED <<notPipelineVars, design_rows, revenue_rows, design_relevancy,
                   revenue_relevancy, top_10_roots, branded_keywords,
                   non_branded_keywords, branded_rows, filtered_rows,
                   merged_evaluations>>

\* lines 549-600
MergeEvaluations ==
    /\ rspc = "merge"
    /\ LET sorted == StableSortDesc(keyword_evaluations,
                                    [i \in DOMAIN keyword_evaluations |->
                                       RelevanceScore(keyword_evaluations[i])])
           lookup == brand_status_lookup(branded_keywords, non_branded_keywords)
       IN /\ keyword_evaluations' = sorted
          /\ merged_evaluations' = MergeWithRows(sorted, filtered_rows, lookup)
                                   \o BrandedEntries(branded_rows, lookup)
    /\ rspc' = "filter"
    /\ UNCHANGED <<notPipelineVars, design_rows, revenue_rows, design_relevancy,
                   revenue_relevancy, top_10_roots, branded_keywords,
                   non_branded_keywords, branded_rows, filtered_rows>>

\* lines 605-619
FilterAndSort ==
    /\ rspc = "filter"
    /\ merged_evaluations' =
         SortBySearchVolume(SelectSeq(merged_evaluations, KeptForOutput))
    /\ rspc' = "restructure"
    /\ UNCHANGED <<notPipelineVars, keyword_evaluations, design_rows, revenue_rows,
                   design_relevancy, revenue_relevancy, top_10_roots,
                   branded_keywords, non_branded_keywords, branded_rows,
                   filtered_rows>>

\* lines 624-720
Restructure ==
    /\ rspc = "restructure"
    /\ merged_evaluations' =
         [i \in DOMAIN merged_evaluations |-> OutputRow(merged_evaluations[i])]
    /\ rspc' = "returned"
    /\ UNCHANGED <<notPipelineVars, keyword_evaluations, design_rows, revenue_rows,
                   design_relevancy, revenue_relevancy, top_10_roots,
                   branded_keywords, non_branded_keywords, branded_rows,
                   filtered_rows>>

NextPipeline ==
    \/ DeduplicateDesign
    \/ \E branded \in SUBSET RowPhrases : DetectBrands(branded)
    \/ \E n \in 1..MaxRows : \E categories \in [1..n -> AgentCategories] :
          Categorize(categories)
    \/ CategorizeBatchFails
    \/ \E irrelevant_lookup \in SUBSET {lower(p) : p \in RowPhrases} :
          ValidateIrrelevant(irrelevant_lookup)
    \/ MergeEvaluations
    \/ FilterAndSort
    \/ Restructure

SpecPipeline == InitPipeline /\ [][NextPipeline]_vars

(***************************************************************************)
(* The final keyword list.                                                 *)
(***************************************************************************)
\* the normalized phrase: stripped and lowered
NormalizedPhrase(phrase) == lower(strip(phrase))

\* the search volume of a cell: its number, 0 when it is empty or no number
SearchVolumeOf(cell) ==
    IF cell = <<>> \/ IntRaises(cell) THEN 0 ELSE IntOf(cell)

\* the rows behind the merged entries of a normalized phrase
MergedRowsOf(phrase) ==
    { row \in Range(filtered_rows) \cup Range(branded_rows) :
        NormalizedPhrase(row.KeywordPhrase) = phrase }

\* C4: in the final list, when one entry of a normalized phrase has
\* category branded, every entry of that phrase has category branded.
C4_BrandedPrecedence ==
    rspc = "returned" =>
        \A i, j \in DOMAIN merged_evaluations :
            /\ NormalizedPhrase(merged_evaluations[i].keyword)
                 = NormalizedPhrase(merged_evaluations[j].keyword)
            /\ merged_evaluations[i].category = "branded"
            => merged_evaluations[j].category = "branded"

\* C5: when no entry of a normalized phrase is branded and the evaluations
\* of that phrase carry more than one category, every entry of the phrase
\* in the final list has category irrelevant.
C5_ConflictIrrelevant ==
    rspc = "returned" =>
        \A i, j \in DOMAIN keyword_evaluations :
            LET phrase == NormalizedPhrase(keyword_evaluations[i].keyword) IN
            /\ NormalizedPhrase(keyword_evaluations[j].keyword) = phrase
            /\ keyword_evaluations[i].category # keyword_evaluations[j].category
            /\ \A r \in DOMAIN branded_rows :
                  NormalizedPhrase(branded_rows[r].KeywordPhrase) # phrase
            => \A o \in DOMAIN merged_evaluations :
                  NormalizedPhrase(merged_evaluations[o].keyword) = phrase
                  => merged_evaluations[o].category = "irrelevant"

\* C6: the final list holds no normalized phrase twice, and the entry of a
\* phrase carries the highest search volume among the merged entries of
\* that phrase.
C6_OncePerPhraseHighestVolume ==
    rspc = "returned" =>
        \A i \in DOMAIN merged_evaluations :
            LET phrase == NormalizedPhrase(merged_evaluations[i].keyword) IN
            /\ \A j \in DOMAIN merged_evaluations :
                  NormalizedPhrase(merged_evaluations[j].keyword) = phrase => j = i
            /\ \A row \in MergedRowsOf(phrase) :
                  SearchVolumeOf(merged_evaluations[i].search_volume)
                    >= SearchVolumeOf(row.SearchVolume)

\* C7: the final list is in non-increasing order of search volume, whatever
\* the search-volume cells hold.
C7_SortedBySearchVolume ==
    rspc = "returned" =>
        \A i, j \in DOMAIN merged_evaluations :
            i < j => SearchVolumeOf(merged_evaluations[i].search_volume)
                       >= SearchVolumeOf(merged_evaluations[j].search_volume)

(***************************************************************************)
(* apply_verification_results and normalized phrases.                      *)
(***************************************************************************)
\* the record carries what lines 273-283 write for the result
CarriesVerdict(cat, result) ==
    IF result.verdict = "relevant"
    THEN /\ cat.category = "relevant"
         /\ cat.relevance_score = 8
         /\ cat.reasoning = VerifiedRelevantPrefix \o result.reasoning
    ELSE /\ cat.category = "irrelevant"
         /\ cat.relevance_score = 3
         /\ cat.reasoning = VerifiedIrrelevantPrefix \o result.reasoning

\* C18: when apply_verification_results has returned, every record whose
\* lowercased and trimmed phrase is a key of verification_results carries
\* the category, score and reasoning of that key's verdict, also when the
\* record's phrase differs from the key in letter case or surrounding
\* whitespace.
C18_AppliedByNormalizedPhrase ==
    apc = "returned" =>
        \A i \in DOMAIN keyword_evaluations :
            LET key == NormalizedPhrase(keyword_evaluations[i].keyword) IN
            key \in DOMAIN verification_results
                => CarriesVerdict(keyword_evaluations[i], verification_results[key])

(***************************************************************************)
(* KeywordVariantDetector.detect_variants                                  *)
(***************************************************************************)
\* self.pronouns_articles
pronouns_articles ==
    {
      <<"a">>, <<"a","n">>, <<"t","h","e">>,
      <<"t","h","i","s">>, <<"t","h","a","t">>, <<"t","h","e","s","e">>,
      <<"t","h","o","s","e">>, <<"m","y">>, <<"y","o","u","r">>,
      <<"h","i","s">>, <<"h","e","r">>, <<"i","t","s">>,
      <<"o","u","r">>, <<"t","h","e","i","r">> }

\* str.endswith(suffix)
EndsWith(word, suffix) ==
    /\ Len(word) >= Len(suffix)
    /\ SubSeq(word, Len(word) - Len(suffix) + 1, Len(word)) = suffix

\* word[:-n]
DropLast(word, n) == SubSeq(word, 1, Len(word) - n)

singularize_PlainS(word) ==
    IF /\ EndsWith(word, <<"s">>) /\ Len(word) > 2
       /\ ~EndsWith(word, <<"s","s">>) /\ ~EndsWith(word, <<"u","s">>)
    THEN DropLast(word, 1)
    ELSE word

\* _singularize
singularize(word) ==
    IF EndsWith(word, <<"i","e","s">>) /\ Len(word) > 4
    THEN DropLast(word, 3) \o <<"y">>
    ELSE IF EndsWith(word, <<"e","s">>) /\ Len(word) > 3
    THEN IF \/ EndsWith(word, <<"s","e","s">>)
            \/ EndsWith(word, <<"c","h","e","s">>)
            \/ EndsWith(word, <<"s","h","e","s">>)
            \/ EndsWith(word, <<"x","e","s">>)
         THEN DropLast(word, 2)
         ELSE DropLast(word, 1)
    ELSE IF /\ EndsWith(word, <<"s">>) /\ Len(word) > 2
            /\ ~EndsWith(word, <<"s","s">>) /\ ~EndsWith(word, <<"u","s">>)
    THEN DropLast(word, 1)
    ELSE word

\* `while words and words[0] in self.pronouns_articles: words.pop(0)`
RECURSIVE PopLeading(_)
PopLeading(ws) ==
    IF ws # <<>> /\ Head(ws) \in pronouns_articles THEN PopLeading(Tail(ws)) ELSE ws

\* `while words and words[-1] in self.pronouns_articles: words.pop()`
RECURSIVE PopTrailing(_)
PopTrailing(ws) ==
    IF ws # <<>> /\ ws[Len(ws)] \in pronouns_articles
    THEN PopTrailing(DropLast(ws, 1)) ELSE ws

\* ' '.join(words)
RECURSIVE JoinWords(_)
JoinWords(ws) ==
    IF ws = <<>> THEN <<>>
    ELSE IF Len(ws) = 1 THEN ws[1]
    ELSE ws[1] \o SP \o JoinWords(Tail(ws))

\* _normalize_keyword
normalize_keyword(keyword) ==
    LET keyword_lower == strip(lower(keyword))
        ws == PopTrailing(PopLeading(split(keyword_lower)))
    IN IF ws = <<>> THEN keyword_lower
       ELSE JoinWords([ws EXCEPT ![Len(ws)] = singularize(ws[Len(ws)])])

\* the values of 'Search Volume': None or missing, an int, a str
NoVolume == [kind |-> "none", value |-> 0, text |-> <<>>]
IntVolume(n) == [kind |-> "int", value |-> n, text |-> <<>>]
StrVolume(t) == [kind |-> "str", value |-> 0, text |-> t]

\* the values `x or 0` replaces by 0: None, 0 and ''
Falsy(v) ==
    \/ v.kind = "none"
    \/ v.kind = "int" /\ v.value = 0
    \/ v.kind = "str" /\ v.text = <<>>

\* `int(x.get('Search Volume', 0) or 0)` raises ValueError (lines 156, 160, 165)
IntVolumeRaises(kw) ==
    /\ ~Falsy(kw.Search_Volume)
    /\ kw.Search_Volume.kind = "str"
    /\ IntRaises(kw.Search_Volume.text)

\* `v.get('Search Volume', 0) or 0`, and int() of it when it does not raise
VolumeOrZero(kw) ==
    IF Falsy(kw.Search_Volume) THEN 0
    ELSE IF kw.Search_Volume.kind = "int" THEN kw.Search_Volume.value
    ELSE IntOf(kw.Search_Volume.text)

GroupAppend_Overwrite(groups, key, i) ==
    IF \E g \in DOMAIN groups : groups[g].group_key = key
    THEN LET g == CHOOSE h \in DOMAIN groups : groups[h].group_key = key
         IN [groups EXCEPT ![g].variants = <<i>>]
    ELSE Append(groups, [group_key |-> key, variants |-> <<i>>])

\* variant_groups[normalized].append(...) on a defaultdict(list)
GroupAppend(groups, key, i) ==
    IF \E g \in DOMAIN groups : groups[g].group_key = key
    THEN LET g == CHOOSE h \in DOMAIN groups : groups[h].group_key = key
         IN [groups EXCEPT ![g].variants = Append(@, i)]
    ELSE Append(groups, [group_key |-> key, variants |-> <<i>>])

\* `volume >= highest_volume * 0.8` on integers: 0.8 * h is compared with an
\* integer, which is the comparison of 5 * volume with 4 * h
SimilarThreshold_NoTolerance(volume, highest_volume) == volume >= highest_volume

SimilarThreshold(volume, highest_volume) == 5 * volume >= 4 * highest_volume

\* lines 163-169: the prefix of sorted_variants up to the first member below
\* the threshold
RECURSIVE SimilarPrefix(_, _, _)
SimilarPrefix(sorted_variants, highest_volume, k) ==
    IF k > Len(sorted_variants) THEN <<>>
    ELSE IF SimilarThreshold(VolumeOrZero(variant_keywords[sorted_variants[k]]),
                             highest_volume)
         THEN <<sorted_variants[k]>>
                \o SimilarPrefix(sorted_variants, highest_volume, k + 1)
         ELSE <<>>

\* line 177: `words and words[0] not in self.pronouns_articles`
StartsPlain(i) ==
    LET ws == split(lower(variant_keywords[i].keyword))
    IN ws # <<>> /\ ws[1] \notin pronouns_articles

\* _select_best_variant on a non-empty list of members (indices of keywords)
select_best_variant(variants) ==
    IF Len(variants) = 1 THEN variants[1]
    ELSE
    LET sorted_variants ==
            StableSortDesc(variants,
                [p \in DOMAIN variants |-> VolumeOrZero(variant_keywords[variants[p]])])
        highest_volume == VolumeOrZero(variant_keywords[sorted_variants[1]])
        similar_volume_variants == SimilarPrefix(sorted_variants, highest_volume, 1)
        plain == {p \in DOMAIN similar_volume_variants :
                     StartsPlain(similar_volume_variants[p])}
    IN IF Len(similar_volume_variants) > 1 /\ plain # {}
       THEN similar_volume_variants[CHOOSE p \in plain : \A q \in plain : p <= q]
       ELSE sorted_variants[1]

\* _select_best_variant raises: the sort key of line 156 is computed for
\* every member of a group of two or more (a single member is returned at
\* line 151 before any int())
SelectRaises(variants) ==
    /\ Len(variants) > 1
    /\ \E p \in DOMAIN variants : IntVolumeRaises(variant_keywords[variants[p]])

\* line 46 raises TypeError: sum() adds a str that `or 0` left in place
SumRaises(variants) ==
    \E p \in DOMAIN variants :
        LET v == variant_keywords[variants[p]].Search_Volume
        IN ~Falsy(v) /\ v.kind = "str"

\* line 46
RECURSIVE TotalSearchVolume(_)
TotalSearchVolume(variants) ==
    IF variants = <<>> THEN 0
    ELSE VolumeOrZero(variant_keywords[Head(variants)])
           + TotalSearchVolume(Tail(variants))

\* the inputs of the model
W_toys     == <<"t","o","y","s">>
W_the      == <<"t","h","e">>
W_cookie   == <<"c","o","o","k","i","e">>
W_cookies  == <<"c","o","o","k","i","e","s">>

VariantPhrases ==
    { <<>>, W_toy, W_toys, W_the \o SP \o W_toy, W_toy \o SP \o W_the,
      W_cookie, W_cookies, W_the }

VariantVolumes ==
    {NoVolume, IntVolume(4), IntVolume(5), StrVolume(<<"n","/","a">>)}

VariantRecords ==
    [keyword : VariantPhrases, Search_Volume : VariantVolumes]

InitVariants ==
    /\ \E n \in 0..MaxVariants : variant_keywords \in [1..n -> VariantRecords]
    /\ vdpc = "grouping"
    /\ variantIdx = 1
    /\ variant_groups = <<>>
    /\ variant_analysis = <<>>
    /\ keyword_evaluations = <<>>
    /\ verification_results = <<>>
    /\ RootsIdle
    /\ VerifyIdle
    /\ ApplyIdle
    /\ PipelineIdle
    /\ QueriesIdle

\* _group_variants, one iteration of the loop over keywords (lines 69-79)
GroupVariant ==
    /\ vdpc = "grouping"
    /\ variantIdx <= Len(variant_keywords)
    /\ LET keyword_phrase == variant_keywords[variantIdx].keyword
       IN variant_groups' =
            IF keyword_phrase = <<>> THEN variant_groups
            ELSE GroupAppend(variant_groups, normalize_keyword(keyword_phrase),
                             variantIdx)
    /\ variantIdx' = variantIdx + 1
    /\ UNCHANGED <<vdpc, variant_keywords, variant_analysis, notVariantVars>>

\* _group_variants returns (line 81)
GroupingDone ==
    /\ vdpc = "grouping"
    /\ variantIdx > Len(variant_keywords)
    /\ vdpc' = "selecting"
    /\ variantIdx' = 1
    /\ UNCHANGED <<variant_keywords, variant_groups, variant_analysis,
                   notVariantVars>>

\* one iteration of the loop over the groups (lines 39-47); an exception of
\* line 40 or line 46 leaves detect_variants
SelectVariant ==
    /\ vdpc = "selecting"
    /\ variantIdx <= Len(variant_groups)
    /\ LET group == variant_groups[variantIdx]
       IN IF SelectRaises(group.variants) \/ SumRaises(group.variants)
          THEN /\ vdpc' = "raised"
               /\ UNCHANGED <<variant_analysis, variantIdx>>
          ELSE /\ variant_analysis' = Append(variant_analysis,
                    [group_key |-> group.group_key,
                     variants |-> group.variants,
                     best_variant |-> select_best_variant(group.variants),
                     variant_count |-> Len(group.variants),
                     total_search_volume |-> TotalSearchVolume(group.variants)])
               /\ variantIdx' = variantIdx + 1
               /\ vdpc' = vdpc
    /\ UNCHANGED <<variant_keywords, variant_groups, notVariantVars>>

\* the sort by total search volume and the return (lines 50-52)
SortAndReturn ==
    /\ vdpc = "selecting"
    /\ variantIdx > Len(variant_groups)
    /\ variant_analysis' =
         StableSortDesc(variant_analysis,
             [p \in DOMAIN variant_analysis |->
                 variant_analysis[p].total_search_volume])
    /\ vdpc' = "returned"
    /\ UNCHANGED <<variant_keywords, variantIdx, variant_groups, notVariantVars>>

NextVariants ==
    \/ GroupVariant
    \/ GroupingDone
    \/ SelectVariant
    \/ SortAndReturn

SpecVariants == InitVariants /\ [][NextVariants]_vars

(***************************************************************************)
(* Claims about detect_variants.                                           *)
(***************************************************************************)
\* q is p with one pronoun/article put in front of it or behind it
ArticleVariant(p, q) ==
    \E t \in pronouns_articles : q = t \o SP \o p \/ q = p \o SP \o t

\* singular / plural pairs of English among the input phrases
PluralPairs == { <<W_toy, W_toys>>, <<W_cookie, W_cookies>> }

\* the input keywords i and j are members of one group of the result
SameVariantGroup(i, j) ==
    \E g \in DOMAIN variant_analysis :
        /\ InList(i, variant_analysis[g].variants)
        /\ InList(j, variant_analysis[g].variants)

\* C15: two input keywords of which one is the other with a pronoun/article
\* in front or behind, or of which one is the plural of the other, get the
\* same normalization key and are members of one VariantGroup of the result.
C15_VariantsShareKey ==
    vdpc = "returned" =>
        \A i, j \in DOMAIN variant_keywords :
            LET p == variant_keywords[i].keyword
                q == variant_keywords[j].keyword
            IN (p # <<>> /\ (ArticleVariant(p, q) \/ <<p, q>> \in PluralPairs))
                 => /\ normalize_keyword(p) = normalize_keyword(q)
                    /\ SameVariantGroup(i, j)

\* the number of times the input keyword i is listed as a member of a group
VariantMemberships(i) ==
    LET slots == {<<g, p>> \in (DOMAIN variant_analysis)
                                 \X (1..Len(variant_keywords)) :
                     /\ p \in DOMAIN variant_analysis[g].variants
                     /\ variant_analysis[g].variants[p] = i}
    IN Cardinality(slots)

\* C16: in the result of detect_variants every input keyword with a
\* non-empty phrase is a member of exactly one group, and the best_variant of
\* every group is one of that group's members.
C16_VariantPartition ==
    vdpc = "returned" =>
        /\ \A i \in DOMAIN variant_keywords :
              variant_keywords[i].keyword # <<>> => VariantMemberships(i) = 1
        /\ \A g \in DOMAIN variant_analysis :
              InList(variant_analysis[g].best_variant, variant_analysis[g].variants)

C16_Witness ==
    /\ vdpc = "returned"
    /\ \E g \in DOMAIN variant_analysis :
         /\ variant_analysis[g].variant_count = 2
         /\ variant_analysis[g].best_variant = variant_analysis[g].variants[2]
         /\ variant_keywords[1].keyword # variant_keywords[2].keyword

\* the member a comes before the member b when the members are sorted by
\* search volume descending (equal volumes keep the input order)
SortedBefore(a, b) ==
    \/ VolumeOrZero(variant_keywords[a]) > VolumeOrZero(variant_keywords[b])
    \/ /\ VolumeOrZero(variant_keywords[a]) = VolumeOrZero(variant_keywords[b])
       /\ a < b

\* the members of a group with volume >= 0.8 x the top volume of the group
NearTied(members) ==
    LET top == CHOOSE m \in members : \A n \in members : m = n \/ SortedBefore(m, n)
    IN {m \in members :
          5 * VolumeOrZero(variant_keywords[m])
             >= 4 * VolumeOrZero(variant_keywords[top])}

\* C17: the representative of a group is the first member, in the order of
\* search volume descending, of the members with volume >= 0.8 x the top
\* volume whose first token is not a pronoun/article, when more than one
\* member has such a volume and one of them starts without a pronoun/article;
\* in every other case it is the first member in that order.
C17_Representative ==
    \A g \in DOMAIN variant_analysis :
        LET members == Range(variant_analysis[g].variants)
            best == variant_analysis[g].best_variant
            plain == {m \in NearTied(members) : StartsPlain(m)}
            First(S) == CHOOSE m \in S : \A n \in S : m = n \/ SortedBefore(m, n)
        IN IF Cardinality(NearTied(members)) > 1 /\ plain # {}
           THEN best = First(plain)
           ELSE best = First(members)

C17_Witness ==
    /\ vdpc = "returned"
    /\ \E g \in DOMAIN variant_analysis :
         LET best == variant_analysis[g].best_variant IN
         \E m \in Range(variant_analysis[g].variants) :
            /\ VolumeOrZero(variant_keywords[m]) > VolumeOrZero(variant_keywords[best])
            /\ ~StartsPlain(m)
            /\ StartsPlain(best)

\* the input keyword i has a search volume that is missing or is not a number
VolumeMissingOrUnparseable(i) ==
    \/ variant_keywords[i].Search_Volume.kind = "none"
    \/ /\ variant_keywords[i].Search_Volume.kind = "str"
       /\ IntRaises(variant_keywords[i].Search_Volume.text)

\* C21: detect_variants does not end with an error on a record whose
\* search volume is missing or unparseable: it returns, and the total of
\* every group counts such a record as 0.
C21_MissingVolumeIsZero ==
    /\ vdpc # "raised"
    /\ \A g \in DOMAIN variant_analysis :
         variant_analysis[g].total_search_volume =
            SumOver([i \in DOMAIN variant_keywords |->
                       IF VolumeMissingOrUnparseable(i) THEN 0
                       ELSE variant_keywords[i].Search_Volume.value],
                    Range(variant_analysis[g].variants))

(***************************************************************************)
(* The queries of KeywordVariantDetector: _singularize, _normalize_keyword,*)
(* is_variant and get_variant_type, each called on arguments drawn from a  *)
(* bounded set.                                                            *)
(***************************************************************************)
is_variant_Raw(keyword1, keyword2) == lower(keyword1) = lower(keyword2)

\* is_variant, lines 194-197
is_variant(keyword1, keyword2) ==
    normalize_keyword(keyword1) = normalize_keyword(keyword2)

\* [w for w in words if w not in self.pronouns_articles]
RECURSIVE WithoutPronouns(_)
WithoutPronouns(ws) ==
    IF ws = <<>> THEN <<>>
    ELSE IF Head(ws) \in pronouns_articles THEN WithoutPronouns(Tail(ws))
    ELSE <<Head(ws)>> \o WithoutPronouns(Tail(ws))

\* get_variant_type, lines 206-224
get_variant_type(keyword1, keyword2) ==
    IF lower(keyword1) = lower(keyword2) THEN "identical"
    ELSE IF ~is_variant(keyword1, keyword2) THEN "not_variant"
    ELSE IF WithoutPronouns(split(lower(keyword1)))
              = WithoutPronouns(split(lower(keyword2)))
    THEN "pronoun_article"
    ELSE "singular_plural"

\* the tokens _singularize is called on: every word of up to MaxTokenLen
\* letters over the letters its rules look at
TokenLetters == {"s", "e", "i", "x", "c", "h", "u"}

Tokens == UNION { [1..n -> TokenLetters] : n \in 1..MaxTokenLen }

\* the phrases the other queries are called on
W_lens   == <<"l","e","n","s">>
W_lenses == <<"l","e","n","s","e","s">>

QueryPhrases ==
    { W_toy, W_toys, <<"T">> \o Tail(W_toy), W_the \o SP \o W_toy,
      W_toy \o SP \o W_the, W_the, W_lens, W_lenses }

NoArgument == <<>>

Queries ==
    { [op |-> "singularize", a |-> t, b |-> NoArgument] : t \in Tokens }
    \cup { [op |-> "normalize_keyword", a |-> p, b |-> NoArgument] :
             p \in QueryPhrases }
    \cup { [op |-> o, a |-> p, b |-> q] :
             o \in {"is_variant", "get_variant_type"},
             p \in QueryPhrases, q \in QueryPhrases }

InitQueries ==
    /\ query \in Queries
    /\ query_result = NoResult
    /\ keyword_evaluations = <<>>
    /\ verification_results = <<>>
    /\ RootsIdle
    /\ VerifyIdle
    /\ ApplyIdle
    /\ PipelineIdle
    /\ VariantsIdle

\* _singularize(word) returns
Singularize ==
    /\ query.op = "singularize"
    /\ ~query_result.done
    /\ query_result' = [NoResult EXCEPT !.done = TRUE, !.text = singularize(query.a)]
    /\ UNCHANGED <<query, notQueryVars>>

\* _normalize_keyword(keyword) returns
NormalizeKeyword ==
    /\ query.op = "normalize_keyword"
    /\ ~query_result.done
    /\ query_result' =
         [NoResult EXCEPT !.done = TRUE, !.text = normalize_keyword(query.a)]
    /\ UNCHANGED <<query, notQueryVars>>

\* is_variant(keyword1, keyword2) returns
IsVariant ==
    /\ query.op = "is_variant"
    /\ ~query_result.done
    /\ query_result' =
         [NoResult EXCEPT !.done = TRUE, !.flag = is_variant(query.a, query.b)]
    /\ UNCHANGED <<query, notQueryVars>>

\* get_variant_type(keyword1, keyword2) returns
GetVariantType ==
    /\ query.op = "get_variant_type"
    /\ ~query_result.done
    /\ query_result' =
         [NoResult EXCEPT !.done = TRUE,
                          !.type = get_variant_type(query.a, query.b)]
    /\ UNCHANGED <<query, notQueryVars>>

NextQueries ==
    \/ Singularize
    \/ NormalizeKeyword
    \/ IsVariant
    \/ GetVariantType

SpecQueries == InitQueries /\ [][NextQueries]_vars

(***************************************************************************)
(* Claims about the queries.                                               *)
(***************************************************************************)
\* the last n letters of a word (the whole word when it is shorter)
Ending(word, n) ==
    IF Len(word) <= n THEN word ELSE SubSeq(word, Len(word) - n + 1, Len(word))

EsEndings == { <<"s","e","s">>, <<"c","h","e","s">>, <<"s","h","e","s">>,
               <<"x","e","s">> }

\* the suffix rules as the claim words them, first match wins
SingularAsClaimed(word) ==
    CASE Ending(word, 3) = <<"i","e","s">> /\ Len(word) > 4
           -> SubSeq(word, 1, Len(word) - 3) \o <<"y">>
      [] OTHER ->
    CASE Ending(word, 2) = <<"e","s">>
           /\ (Ending(word, 3) \in EsEndings \/ Ending(word, 4) \in EsEndings)
           -> SubSeq(word, 1, Len(word) - 2)
      [] OTHER ->
    CASE Ending(word, 2) = <<"e","s">> /\ Len(word) > 3
           -> SubSeq(word, 1, Len(word) - 1)
      [] OTHER ->
    CASE Ending(word, 1) = <<"s">> /\ Len(word) > 2
           /\ Ending(word, 2) \notin {<<"s","s">>, <<"u","s">>}
           -> SubSeq(word, 1, Len(word) - 1)
      [] OTHER -> word

\* the same rules with the length condition of the '...es' rules on both
SingularReference(word) ==
    CASE Ending(word, 3) = <<"i","e","s">> /\ Len(word) > 4
           -> SubSeq(word, 1, Len(word) - 3) \o <<"y">>
      [] OTHER ->
    CASE Ending(word, 2) = <<"e","s">> /\ Len(word) > 3
           /\ (Ending(word, 3) \in EsEndings \/ Ending(word, 4) \in EsEndings)
           -> SubSeq(word, 1, Len(word) - 2)
      [] OTHER ->
    CASE Ending(word, 2) = <<"e","s">> /\ Len(word) > 3
           -> SubSeq(word, 1, Len(word) - 1)
      [] OTHER ->
    CASE Ending(word, 1) = <<"s">> /\ Len(word) > 2
           /\ Ending(word, 2) \notin {<<"s","s">>, <<"u","s">>}
           -> SubSeq(word, 1, Len(word) - 1)
      [] OTHER -> word

\* C24, as claimed: on every token _singularize returns what the ordered
\* suffix rules give, the rule for ses, ches, shes and xes having no length
\* condition.
C24_SingularizeAsClaimed ==
    (query.op = "singularize" /\ query_result.done)
        => query_result.text = SingularAsClaimed(query.a)

\* C24: on every token _singularize returns what the ordered suffix rules
\* give, first match wins: ies (length > 4) to y; es (length > 3) after s,
\* ch, sh or x drops 2; any other es (length > 3) drops 1; a plain s
\* (length > 2, not ss or us) drops 1; every other token is unchanged.
C24_SingularizeRules ==
    (query.op = "singularize" /\ query_result.done)
        => query_result.text = SingularReference(query.a)

C24_Witness ==
    /\ query.op = "singularize"
    /\ query_result.done
    /\ query.a = <<"c","h","e","s">>
    /\ query_result.text = <<"c","h">>

\* C25: is_variant(a, b) is true exactly when a and b have the same
\* normalization string, get_variant_type(a, b) is 'not_variant' exactly
\* when is_variant(a, b) is false, and both give the same answer for (b, a).
C25_QueriesAgree ==
    /\ (query.op = "is_variant" /\ query_result.done) =>
         /\ query_result.flag
              <=> (normalize_keyword(query.a) = normalize_keyword(query.b))
         /\ query_result.flag <=> is_variant(query.b, query.a)
    /\ (query.op = "get_variant_type" /\ query_result.done) =>
         /\ query_result.type = "not_variant"
              <=> (normalize_keyword(query.a) # normalize_keyword(query.b))
         /\ query_result.type = get_variant_type(query.b, query.a)
         /\ query_result.type \in
              {"identical", "pronoun_article", "singular_plural", "not_variant"}

C25_Witness ==
    /\ query.op = "get_variant_type"
    /\ query_result.done
    /\ query_result.type = "pronoun_article"
    /\ query.a = W_toy \o SP \o W_the

\* C29: normalizing a normalization string gives that string again.
C29_NormalizeIdempotent ==
    (query.op = "normalize_keyword" /\ query_result.done)
        => normalize_keyword(query_result.text) = query_result.text

(***************************************************************************)
(* apply_verification_results: what it leaves alone and what it returns.   *)
(***************************************************************************)
\* the records the loop has overwritten with verdict relevant so far
SetToRelevant ==
    { i \in 1..(applyIdx - 1) :
        /\ keyword_evaluations[i].keyword \in DOMAIN verification_results
        /\ verification_results[keyword_evaluations[i].keyword].verdict = "relevant" }

\* C26: apply_verification_results never changes a record whose keyword is
\* not a key of verification_results, a record it changes carries relevant
\* with score 8 or irrelevant with score 3 according to the verdict of its
\* key, and the count it returns is the number of records it set to relevant.
C26_ApplyFrame ==
    /\ [][ \A i \in DOMAIN keyword_evaluations :
             /\ keyword_evaluations[i].keyword \notin DOMAIN verification_results
                  => keyword_evaluations'[i] = keyword_evaluations[i]
             /\ keyword_evaluations'[i] # keyword_evaluations[i]
                  => /\ keyword_evaluations'[i].keyword = keyword_evaluations[i].keyword
                     /\ CarriesVerdict(keyword_evaluations'[i],
                            verification_results[keyword_evaluations[i].keyword])
         ]_vars
    /\ [](apc \in {"loop", "returned"}
            => relevant_count = Cardinality(SetToRelevant))
    /\ [](apc = "returned" =>
            /\ applyIdx = Len(keyword_evaluations) + 1
            /\ \A i \in DOMAIN keyword_evaluations :
                 keyword_evaluations[i].keyword \in DOMAIN verification_results
                   => CarriesVerdict(keyword_evaluations[i],
                          verification_results[keyword_evaluations[i].keyword]))

C26_Witness ==
    /\ apc = "returned"
    /\ Len(keyword_evaluations) = 2
    /\ keyword_evaluations[1].keyword \notin DOMAIN verification_results
    /\ keyword_evaluations[1].category = "design_specific"
    /\ keyword_evaluations[1].reasoning = InitialReasoning
    /\ keyword_evaluations[2].keyword \in DOMAIN verification_results
    /\ keyword_evaluations[2].category = "relevant"
    /\ keyword_evaluations[2].relevance_score = 8
    /\ keyword_evaluations[2].reasoning # InitialReasoning
    /\ relevant_count = 1

(***************************************************************************)
(* The shared counters and the writes of the result map.                   *)
(***************************************************************************)
\* the counters count every task when the verify phase returns
CountersComplete ==
    /\ completed_count = Cardinality(Tasks)
    /\ completed = Cardinality(Tasks)

\* C27: under every interleaving no increment of the progress counter is
\* lost, so that when the verify phase returns the counter equals the
\* number of submitted tasks, and each key of the result map is written
\* exactly once: every completion writes a key the map did not hold yet.
C27_NoLostUpdate ==
    [][ /\ completed' # completed
            => /\ completed' = completed + 1
               /\ DOMAIN verification_results' # DOMAIN verification_results
        /\ completed_count' # completed_count
            => completed_count' = completed_count + 1
        /\ (vpc = "verifying" /\ vpc' = "returned") => CountersComplete
      ]_vars

(***************************************************************************)
(* The percent values of one call of verify_irrelevant_keywords.           *)
(***************************************************************************)
\* p <= q for two percent values held as fractions
PercentLeq(p, q) == p.num * q.den <= q.num * p.den

\* the reserved sub-range, 95 to 99
InReservedRange(p) == 95 * p.den <= p.num /\ p.num <= 99 * p.den

\* C28: over one call of verify_irrelevant_keywords the percent values
\* passed to the progress callback never decrease and stay between 95
\* and 99.
C28_ProgressMonotonic ==
    /\ \A i \in DOMAIN progress_updates : InReservedRange(progress_updates[i])
    /\ \A i, j \in DOMAIN progress_updates :
         i < j => PercentLeq(progress_updates[i], progress_updates[j])

(***************************************************************************)
(* The scraper of a scrape task.                                           *)
(***************************************************************************)
\* scrape_keyword of task t has returned
ScrapeTaskComplete(t) == futures[t].state \in {"finished", "collected"}

\* C30: every scraper that a scrape task opens is closed before the task
\* completes, when the scrape succeeds and when it raises an error.
C30_ScraperClosed ==
    \A t \in DOMAIN futures :
        ScrapeTaskComplete(t) => scrapers[t] = "closed"

=============================================================================
